---- MODULE Spec2Model ----
(***************************************************************************)
(* Device wiring core of the VMM (arch/src/lib.rs): PCI address            *)
(* assignment, PCI topology generation, PCI root generation and hot-plug.  *)
(***************************************************************************)
EXTENDS Integers, Sequences, FiniteSets, TLC

\* ------------------------------------------------------------------ bounds
\* Longest device list handed to assign_pci_addresses / generate_pci_root.
MaxDevs == 3
\* PCI device slots the allocator manages in the address-assignment model.
MaxSlot == 3
\* Highest bus number a device address or a bridge's child bus can name.
MaxBus == 2
\* Deepest generate_pci_topology call stack that is followed.
MaxDepth == 5

\* Option::None of an address, a bus, a device index.
None == -1

VARIABLES
    objs,           \* assign_pci_addresses: the (BusDeviceObj, jail) slice
    resources,      \* the SystemAllocator: free PCI slots (and those free at the call), next IRQ
    pci_address,    \* per device of objs: the address it holds, or None
    apc,            \* assign_pci_addresses: position ("preferred", "remaining", "done")
    acur,           \* assign_pci_addresses: next list index the running loop looks at
    acalls,         \* the devices allocate_address was called on, in call order
    aresult,        \* assign_pci_addresses: "running", "Ok" or the error
    entry,          \* the function called: "generate_pci_root" or "generate_pci_topology"
    devs,           \* the (PciDevice, jail) vector
    max_irqs,       \* generate_pci_root's max_irqs argument
    pc,             \* position in generate_pci_root / generate_pci_topology
    device_addrs,   \* the addresses allocate_address returned, by device index
    stack,          \* call stack of generate_pci_topology, innermost frame last
    io_ranges,      \* BTreeMap dev_idx -> ranges of allocate_io_bars
    device_ranges,  \* BTreeMap dev_idx -> ranges of allocate_device_bars
    tree,           \* bus numbers registered in the PciBus tree (root bus included)
    subordinate,    \* per device: the value it got by set_subordinate_bus, or None
    irqs,           \* the round-robin pool Vec<Option<u32>> of max_irqs slots
    pci_irqs,       \* the (address, gsi, pin) list returned for ACPI
    order,          \* the device indices the registrar still has to handle
    mmio_bus,       \* entries of the mmio Bus
    io_bus,         \* entries of the io Bus
    root,           \* PciRoot: the (address, device) pairs added to it
    hp_tube,        \* PciRootCommand::Add messages sent on hp_control_tube
    hp_results,     \* results of the configure_pci_device calls made so far
    trace,          \* history: the calls made on devices, allocator and buses, in order
    result,         \* "running", "Ok" or the DeviceRegistrationError
    ctx,            \* the CpuIdContext of adjust_cpuid / filter_cpuid
    host,           \* what the cpuid / cpuid_count probes of ctx return
    cpu_id_entry,   \* adjust_cpuid: the CpuIdEntry it is called on
    cpu_id_entries, \* filter_cpuid: cpuid.cpu_id_entries
    original,       \* history: the entry / the table as it was at the call
    cpc,            \* position in adjust_cpuid / filter_cpuid
    cur,            \* filter_cpuid: the entry the loop adjusts next
    passes,         \* history: the table each filter_cpuid call made so far returned
    image_load,     \* load_image_high: arguments, image size, position and result
    input,          \* struct Input: kill_evt, worker_thread, source
    kill_evts,      \* the kill EventFds created by activate: the counter of each
    worker,         \* the virtio_input thread: position, its kill_evt, init / finalize calls
    event_queue,    \* Worker.event_queue: the available descriptors, in ring order
    status_queue,   \* Worker.status_queue: the available descriptors, in ring order
    event_source,   \* Worker.event_source: events received and pending, events not yet read
    doorbells,      \* the readable ones of the queue, source and resample descriptors
    popped,         \* history: per queue, the descriptor indices in the order of pop
    used,           \* history: per queue, the add_used calls in order
    wake,           \* history: the tokens, add_used calls and signals of the last wake-up
    dpc,            \* Drop for Input: position
    config,         \* VirtioInputConfig: select and subsel
    config_io,      \* history: the last read_config / write_config call and what it returned
    bitmap_call     \* virtio_input_bitmap::from_bits: argument, bitmap built, its min_size

assignVars == <<objs, resources, pci_address, apc, acur, acalls, aresult>>
rootVars == <<entry, devs, max_irqs, pc, device_addrs, stack, io_ranges, device_ranges,
              tree, subordinate, irqs, pci_irqs, order, mmio_bus, io_bus, root,
              hp_tube, hp_results, trace, result>>
vars == <<objs, resources, pci_address, apc, acur, acalls, aresult,
          entry, devs, max_irqs, pc, device_addrs, stack, io_ranges, device_ranges,
          tree, subordinate, irqs, pci_irqs, order, mmio_bus, io_bus, root,
          hp_tube, hp_results, trace, result,
          ctx, host, cpu_id_entry, cpu_id_entries, original, cpc, cur, passes,
          image_load, input, kill_evts, worker, event_queue, status_queue, event_source,
          doorbells, popped, used, wake, dpc, config, config_io, bitmap_call>>
imageVars == <<image_load>>
inputVars == <<input, kill_evts, worker, event_queue, status_queue, event_source,
               doorbells, popped, used, wake, dpc, config, config_io, bitmap_call>>
cpuidVars == <<ctx, host, cpu_id_entry, cpu_id_entries, original, cpc, cur, passes>>

\* adjust_cpuid and filter_cpuid are not called.
CpuidIdle ==
    /\ ctx = <<>>
    /\ host = <<>>
    /\ cpu_id_entry = <<>>
    /\ cpu_id_entries = <<>>
    /\ original = <<>>
    /\ passes = <<>>
    /\ cpc = "idle"
    /\ cur = 1

\* load_image_high is not called.
ImageIdle == image_load = <<>>

\* The config space of the virtio-input device is not accessed and no bitmap
\* is built.
ConfigIdle ==
    /\ config = <<>>
    /\ config_io = <<>>
    /\ bitmap_call = <<>>

\* No virtio-input device exists.
InputIdle ==
    /\ ConfigIdle
    /\ input = <<>>
    /\ kill_evts = <<>>
    /\ worker = <<>>
    /\ event_queue = <<>>
    /\ status_queue = <<>>
    /\ event_source = <<>>
    /\ doorbells = {}
    /\ popped = <<>>
    /\ used = <<>>
    /\ wake = <<>>
    /\ dpc = "idle"

\* ------------------------------------------------------------- helpers
Range(s) == {s[i] : i \in 1..Len(s)}

Max(a, b) == IF a >= b THEN a ELSE b

SeqsUpTo(S, n) == UNION {[1..k -> S] : k \in 0..n}

\* The least element of a non-empty set of integers.
Least(S) == CHOOSE x \in S : \A y \in S : x <= y

\* =================================================================
\* assign_pci_addresses
\* =================================================================
Slots == 1..MaxSlot

\* A BusDeviceObj: as_pci_device_mut() is Some iff pci; preferred_address().
BusDeviceObjs ==
    {o \in [pci : BOOLEAN, pref : Slots \cup {None}] : ~o.pci => o.pref = None}

\* PciDevice::allocate_address against an allocator that rejects a colliding
\* address: the outcomes it can have for a device holding `held`, preferring
\* `pref`, with the slots `free` still free.
AllocateAddress(held, pref, free) ==
    IF held # None THEN {[ok |-> TRUE, addr |-> held, free |-> free]}
    ELSE IF pref # None
         THEN IF pref \in free
              THEN {[ok |-> TRUE, addr |-> pref, free |-> free \ {pref}]}
              ELSE {[ok |-> FALSE, addr |-> None, free |-> free]}
         ELSE IF free = {}
              THEN {[ok |-> FALSE, addr |-> None, free |-> free]}
              ELSE {[ok |-> TRUE, addr |-> a, free |-> free \ {a}] : a \in free}

\* The filter of the first loop.
IsPreferredTurnAll(o) == o.pci
IsPreferredTurn(o) == o.pci /\ o.pref # None

\* The filter of the second loop.
IsRemainingTurn(o) == o.pci /\ o.pref = None

\* map_err(AllocateDeviceAddrs)? on the result of allocate_address.
AssignFailedIgnored(out) == FALSE
AssignFailed(out) == ~out.ok

\* The next list index at or after acur that the given filter lets through, or None.
NextTurn(preferred) ==
    LET S == {j \in acur..Len(objs) :
                IF preferred THEN IsPreferredTurn(objs[j]) ELSE IsRemainingTurn(objs[j])}
    IN IF S = {} THEN None ELSE Least(S)

AssignCall(j) ==
    \E out \in AllocateAddress(pci_address[j], objs[j].pref, resources.pci_free) :
        /\ acalls' = Append(acalls, j)
        /\ pci_address' = [pci_address EXCEPT ![j] = out.addr]
        /\ resources' = [resources EXCEPT !.pci_free = out.free]
        /\ IF AssignFailed(out)
           THEN /\ aresult' = "AllocateDeviceAddrs"
                /\ apc' = "done"
                /\ acur' = acur
           ELSE /\ aresult' = aresult
                /\ apc' = apc
                /\ acur' = j + 1

AssignPreferredCall ==
    /\ apc = "preferred"
    /\ NextTurn(TRUE) # None
    /\ AssignCall(NextTurn(TRUE))
    /\ UNCHANGED <<cpuidVars, imageVars, inputVars, objs, rootVars>>

AssignPreferredEnd ==
    /\ apc = "preferred"
    /\ NextTurn(TRUE) = None
    /\ apc' = "remaining"
    /\ acur' = 1
    /\ UNCHANGED <<cpuidVars, imageVars, inputVars, objs, resources, pci_address, acalls, aresult, rootVars>>

AssignRemainingCall ==
    /\ apc = "remaining"
    /\ NextTurn(FALSE) # None
    /\ AssignCall(NextTurn(FALSE))
    /\ UNCHANGED <<cpuidVars, imageVars, inputVars, objs, rootVars>>

AssignRemainingEnd ==
    /\ apc = "remaining"
    /\ NextTurn(FALSE) = None
    /\ apc' = "done"
    /\ aresult' = "Ok"
    /\ UNCHANGED <<cpuidVars, imageVars, inputVars, objs, resources, pci_address, acur, acalls, rootVars>>

RootIdle ==
    /\ entry = "none"
    /\ devs = <<>>
    /\ max_irqs = 0
    /\ pc = "idle"
    /\ device_addrs = <<>>
    /\ stack = <<>>
    /\ io_ranges = <<>>
    /\ device_ranges = <<>>
    /\ tree = {}
    /\ subordinate = <<>>
    /\ irqs = <<>>
    /\ pci_irqs = <<>>
    /\ order = <<>>
    /\ mmio_bus = {}
    /\ io_bus = {}
    /\ root = {}
    /\ hp_tube = <<>>
    /\ hp_results = <<>>
    /\ trace = <<>>
    /\ result = "idle"

InitAssign ==
    /\ objs \in SeqsUpTo(BusDeviceObjs, MaxDevs)
    /\ \E f \in SUBSET Slots : resources = [pci_free |-> f, pci_initial |-> f, next_irq |-> 1]
    /\ pci_address = [i \in 1..Len(objs) |-> None]
    /\ apc = "preferred"
    /\ acur = 1
    /\ acalls = <<>>
    /\ aresult = "running"
    /\ RootIdle
    /\ CpuidIdle
    /\ ImageIdle
    /\ InputIdle

NextAssign ==
    \/ AssignPreferredCall
    \/ AssignPreferredEnd
    \/ AssignRemainingCall
    \/ AssignRemainingEnd

SpecAssign == InitAssign /\ [][NextAssign]_vars

\* =================================================================
\* generate_pci_topology
\* =================================================================
\* An entry of the history.
\* `call` numbers the generate_pci_topology invocation that made the call (0 is
\* the outermost one), None outside generate_pci_topology.
Ev(op, dev, bus, ranges, call) ==
    [op |-> op, dev |-> dev, bus |-> bus, ranges |-> ranges, call |-> call]

\* The descriptors of the allow-list: device.keep_rds(), those
\* syslog::push_descriptors adds, the guest memory's backing descriptors, and
\* the event of the device's ioevent.
KeepRds(dev) == {<<"device", dev>>}
SyslogDescriptors == {<<"syslog", 0>>}
MemoryDescriptors == {<<"memory", 0>>}
IoeventDescriptors(dev) == {<<"ioevent", dev>>}

\* keep_rds as generate_pci_root collects it (lines 723-737) and as
\* configure_pci_device collects it (lines 467-480).
BootKeepRds(dev) ==
    ((KeepRds(dev) \cup SyslogDescriptors) \cup MemoryDescriptors) \cup IoeventDescriptors(dev)
HotplugKeepRds(dev) == (KeepRds(dev) \cup SyslogDescriptors) \cup IoeventDescriptors(dev)

\* ProxyDevice::new(device, jail, keep_rds).
ProxyNew(dev, keep_rds) ==
    [op |-> "ProxyDevice::new", dev |-> dev, bus |-> None, ranges |-> <<>>, call |-> None,
     keep_rds |-> keep_rds]

\* BTreeMap::insert.
MapInsert(m, k, v) == [x \in DOMAIN m \cup {k} |-> IF x = k THEN v ELSE m[x]]

\* BTreeMap::remove(..).unwrap_or_default() of a map of range lists.
MapTake(m, k) == IF k \in DOMAIN m THEN m[k] ELSE <<>>

BarRange(addr, size, kind) == [addr |-> addr, size |-> size, kind |-> kind]

\* The BARs device dev_idx gets when the allocator hands out fresh space:
\* two addresses per device, the low one to allocate_io_bars.
FreshIoBars(dev_idx) == <<BarRange(2 * (dev_idx - 1), 1, "mmio")>>
FreshDeviceBars(dev_idx) == <<BarRange(2 * (dev_idx - 1) + 1, 1, "mmio")>>

\* PciDevice::get_new_pci_bus: the child bus number of a bridge, None of a leaf.
GetNewPciBus(d) == d.child

\* PciDevice::configure_bridge_window: one window enclosing the ranges below
\* the bridge, none when there are none.
ConfigureBridgeWindow(child_bar_ranges) ==
    IF child_bar_ranges = <<>> THEN <<>>
    ELSE LET lo == Least({r.addr : r \in Range(child_bar_ranges)})
             hi == 0 - Least({0 - (r.addr + r.size) : r \in Range(child_bar_ranges)})
         IN <<BarRange(lo, hi - lo, "window")>>

\* PciBus::add_child_bus: fails for a bus number that is already registered.
AddChildBusOk(registered, child_bus) == child_bus \notin registered

\* A call frame of generate_pci_topology.
Frame(bus_num, call) ==
    [bus_num |-> bus_num, loop |-> "bridges", dev_idx |-> 1,
     bar_ranges |-> <<>>, subordinate_bus |-> bus_num, call |-> call]

\* Vec::extend.
ExtendDropped(bar_ranges, ranges) == bar_ranges
Extend(bar_ranges, ranges) == bar_ranges \o ranges

\* generate_pci_topology invocations started so far.
Invocations == Cardinality({p \in 1..Len(trace) : trace[p].op = "generate_pci_topology"})

Top == stack[Len(stack)]

SetTop(f) == [stack EXCEPT ![Len(stack)] = f]

\* `addr.bus == bus_num` and the device is a bridge (first loop) / a leaf (second loop).
IsBridgeHere(dev_idx, bus_num) ==
    device_addrs[dev_idx].bus = bus_num /\ GetNewPciBus(devs[dev_idx]) # None

IsLeafHere(dev_idx, bus_num) ==
    device_addrs[dev_idx].bus = bus_num /\ GetNewPciBus(devs[dev_idx]) = None

NextBridge ==
    LET S == {j \in Top.dev_idx..Len(devs) : IsBridgeHere(j, Top.bus_num)}
    IN IF S = {} THEN None ELSE Least(S)

NextLeaf ==
    LET S == {j \in Top.dev_idx..Len(devs) : IsLeafHere(j, Top.bus_num)}
    IN IF S = {} THEN None ELSE Least(S)

\* `?` on a failed step of generate_pci_topology, and on its result in
\* generate_pci_root (line 667): the error ends the build.
TopoErrorIgnored(e) == IF entry = "generate_pci_root" THEN "intx" ELSE "failed"
TopoErrorPc(e) == "failed"

\* subordinate_bus = max(subordinate_bus, child_sub_bus).
NewSubordinate(subordinate_bus, child_sub_bus) == Max(subordinate_bus, child_sub_bus)

\* The value handed to set_subordinate_bus.
BridgeSubordinateChildNum(child_bus, child_sub_bus) == child_bus
BridgeSubordinate(child_bus, child_sub_bus) == child_sub_bus

\* allocate_io_bars then allocate_device_bars on device j, each of which can
\* fail; the ranges are recorded in the side maps and appended to bar_ranges.
\* `fail` is "none" or the error of the call that fails.
AllocateBars(j, fail, ranges, call) ==
    LET io == devs[j].io_bars
        dv == devs[j].device_bars
        bus == device_addrs[j].bus
    IN IF fail = "AllocateIoAddrs"
       THEN [io_ranges |-> io_ranges, device_ranges |-> device_ranges,
             bar_ranges |-> ranges,
             trace |-> <<Ev("allocate_io_bars_err", j, bus, <<>>, call)>>]
       ELSE IF fail = "AllocateDeviceAddrs"
       THEN [io_ranges |-> MapInsert(io_ranges, j, io), device_ranges |-> device_ranges,
             bar_ranges |-> Extend(ranges, io),
             trace |-> <<Ev("allocate_io_bars", j, bus, io, call),
                         Ev("allocate_device_bars_err", j, bus, <<>>, call)>>]
       ELSE [io_ranges |-> MapInsert(io_ranges, j, io),
             device_ranges |-> MapInsert(device_ranges, j, dv),
             bar_ranges |-> Extend(Extend(ranges, io), dv),
             trace |-> <<Ev("allocate_io_bars", j, bus, io, call),
                         Ev("allocate_device_bars", j, bus, dv, call)>>]

topoFrame == <<cpuidVars, imageVars, inputVars, objs, resources, pci_address, apc, acur, acalls, aresult,
               entry, devs, max_irqs, device_addrs, irqs, pci_irqs, order,
               mmio_bus, io_bus, root, hp_tube, hp_results>>

\* Lines 535-548: the first loop reaches a bridge of this bus and recurses into
\* its child bus.
TopoRecurse ==
    /\ pc = "topology"
    /\ Top.loop = "bridges"
    /\ NextBridge # None
    /\ Len(stack) < MaxDepth
    /\ LET j == NextBridge
           child_bus == GetNewPciBus(devs[j])
       IN /\ stack' = Append(SetTop([Top EXCEPT !.dev_idx = j]),
                              Frame(child_bus, Invocations + 1))
          /\ trace' = Append(trace, Ev("generate_pci_topology", j, child_bus, <<>>, Top.call))
    /\ UNCHANGED <<topoFrame, pc, io_ranges, device_ranges, tree, subordinate, result>>

\* Line 576: the first loop is over.
TopoBridgesDone ==
    /\ pc = "topology"
    /\ Top.loop = "bridges"
    /\ NextBridge = None
    /\ stack' = SetTop([Top EXCEPT !.loop = "leaves", !.dev_idx = 1])
    /\ UNCHANGED <<topoFrame, pc, io_ranges, device_ranges, tree, subordinate, trace, result>>

\* Lines 578-596: the second loop reaches a leaf of this bus.
TopoLeaf ==
    /\ pc = "topology"
    /\ Top.loop = "leaves"
    /\ NextLeaf # None
    /\ \E fail \in {"none", "AllocateIoAddrs", "AllocateDeviceAddrs"} :
         LET j == NextLeaf
             a == AllocateBars(j, fail, Top.bar_ranges, Top.call)
         IN /\ io_ranges' = a.io_ranges
            /\ device_ranges' = a.device_ranges
            /\ trace' = trace \o a.trace
            /\ IF fail = "none"
               THEN /\ stack' = SetTop([Top EXCEPT !.dev_idx = j + 1,
                                                   !.bar_ranges = a.bar_ranges])
                    /\ UNCHANGED <<pc, result>>
               ELSE /\ pc' = TopoErrorPc(fail)
                    /\ result' = fail
                    /\ stack' = <<>>
    /\ UNCHANGED <<topoFrame, tree, subordinate>>

\* Line 597 in a recursive call, then lines 549-573 in the caller: the child
\* bus is added to the parent bus, the bridge window is configured, the
\* bridge's own BARs are allocated and its subordinate bus is set.
TopoReturnToBridge ==
    /\ pc = "topology"
    /\ Top.loop = "leaves"
    /\ NextLeaf = None
    /\ Len(stack) > 1
    /\ LET child == Top
           parent == stack[Len(stack) - 1]
           j == parent.dev_idx
           rest == SubSeq(stack, 1, Len(stack) - 1)
           window == ConfigureBridgeWindow(child.bar_ranges)
           added == Ev("add_child_bus", j, child.bus_num, <<>>, parent.call)
           configured == Ev("configure_bridge_window", j, child.bus_num,
                            child.bar_ranges, parent.call)
           windowed == Ev("bridge_window", j, child.bus_num, window, parent.call)
       IN IF ~AddChildBusOk(tree, child.bus_num)
          THEN /\ pc' = TopoErrorPc("BrokenPciTopology")
               /\ result' = "BrokenPciTopology"
               /\ trace' = Append(trace, added)
               /\ stack' = <<>>
               /\ UNCHANGED <<io_ranges, device_ranges, tree, subordinate>>
          ELSE \E fail \in {"none", "ConfigureWindowSize", "AllocateIoAddrs",
                            "AllocateDeviceAddrs"} :
               /\ tree' = tree \cup {child.bus_num}
               /\ IF fail = "ConfigureWindowSize"
                  THEN /\ pc' = TopoErrorPc(fail)
                       /\ result' = fail
                       /\ trace' = trace \o <<added, configured>>
                       /\ stack' = <<>>
                       /\ UNCHANGED <<io_ranges, device_ranges, subordinate>>
                  ELSE LET a == AllocateBars(j, fail, Extend(parent.bar_ranges, window),
                                             parent.call)
                       IN /\ io_ranges' = a.io_ranges
                          /\ device_ranges' = a.device_ranges
                          /\ trace' = (trace \o <<added, configured, windowed>>) \o a.trace
                          /\ IF fail = "none"
                             THEN /\ subordinate' =
                                       [subordinate EXCEPT ![j] =
                                          BridgeSubordinate(child.bus_num, child.subordinate_bus)]
                                  /\ stack' = [rest EXCEPT ![Len(rest)] =
                                       [parent EXCEPT
                                          !.dev_idx = j + 1,
                                          !.bar_ranges = a.bar_ranges,
                                          !.subordinate_bus =
                                             NewSubordinate(parent.subordinate_bus,
                                                            child.subordinate_bus)]]
                                  /\ UNCHANGED <<pc, result>>
                             ELSE /\ pc' = TopoErrorPc(fail)
                                  /\ result' = fail
                                  /\ stack' = <<>>
                                  /\ UNCHANGED subordinate
    /\ UNCHANGED topoFrame

\* Line 597 in the outermost call: Ok((bar_ranges, subordinate_bus)) reaches
\* the caller of generate_pci_topology.
TopoReturnToCaller ==
    /\ pc = "topology"
    /\ Top.loop = "leaves"
    /\ NextLeaf = None
    /\ Len(stack) = 1
    /\ trace' = Append(trace, Ev("topology_ok", None, Top.subordinate_bus, Top.bar_ranges,
                                 Top.call))
    /\ IF entry = "generate_pci_topology"
       THEN /\ pc' = "done"
            /\ result' = "Ok"
       ELSE /\ pc' = "intx"
            /\ UNCHANGED result
    /\ UNCHANGED <<topoFrame, stack, io_ranges, device_ranges, tree, subordinate>>

\* A PciDevice of the topology model: its address's bus, the child bus it
\* announces if it is a bridge, and the BARs its allocate calls return.
TopoDevice(i, bus, child) ==
    [jail |-> FALSE, bus |-> bus, child |-> child, intx |-> "suggested",
     io_bars |-> FreshIoBars(i), device_bars |-> FreshDeviceBars(i)]

AssignIdle ==
    /\ objs = <<>>
    /\ resources = [pci_free |-> {}, pci_initial |-> {}, next_irq |-> 1]
    /\ pci_address = <<>>
    /\ apc = "idle"
    /\ acur = 1
    /\ acalls = <<>>
    /\ aresult = "idle"

\* generate_pci_topology(root_bus, ..) on a device vector whose addresses are
\* already assigned.
InitTopo ==
    /\ AssignIdle
    /\ CpuidIdle
    /\ ImageIdle
    /\ InputIdle
    /\ entry = "generate_pci_topology"
    /\ \E n \in 0..MaxDevs :
         \E place \in [1..n -> (0..MaxBus) \X ({None} \cup (0..MaxBus))] :
            /\ devs = [i \in 1..n |-> TopoDevice(i, place[i][1], place[i][2])]
            /\ device_addrs = [i \in 1..n |-> [bus |-> place[i][1], dev |-> i]]
            /\ subordinate = [i \in 1..n |-> None]
    /\ max_irqs = 0
    /\ pc = "topology"
    /\ stack = <<Frame(0, 0)>>
    /\ io_ranges = <<>>
    /\ device_ranges = <<>>
    /\ tree = {0}
    /\ irqs = <<>>
    /\ pci_irqs = <<>>
    /\ order = <<>>
    /\ mmio_bus = {}
    /\ io_bus = {}
    /\ root = {}
    /\ hp_tube = <<>>
    /\ hp_results = <<>>
    /\ trace = <<>>
    /\ result = "running"

NextTopo ==
    \/ TopoRecurse
    \/ TopoBridgesDone
    \/ TopoLeaf
    \/ TopoReturnToBridge
    \/ TopoReturnToCaller

SpecTopo == InitTopo /\ [][NextTopo]_vars

\* =================================================================
\* generate_pci_root
\* =================================================================
\* Bus::insert(device, base, len): fails when [base, base + len) overlaps an entry.
BusOverlaps(bus, range) ==
    \E e \in bus : e.lo < range.addr + range.size /\ range.addr < e.hi

BusEntry(dev, proxy, range) ==
    [dev |-> dev, proxy |-> proxy, lo |-> range.addr, hi |-> range.addr + range.size]

\* Bus::get: the device whose entry covers addr, None when there is none.
BusLookup(bus, addr) ==
    IF \E e \in bus : e.lo <= addr /\ addr < e.hi
    THEN (CHOOSE e \in bus : e.lo <= addr /\ addr < e.hi).dev
    ELSE None

\* `for range in ranges { bus.insert(..)? }`: the bus after the loop, whether every
\* insert succeeded, and the inserts attempted.
RECURSIVE InsertAll(_, _, _, _, _)
InsertAll(bus, dev, proxy, ranges, done) ==
    IF ranges = <<>> THEN [bus |-> bus, ok |-> TRUE, done |-> done]
    ELSE IF BusOverlaps(bus, Head(ranges))
         THEN [bus |-> bus, ok |-> FALSE, done |-> Append(done, Head(ranges))]
         ELSE InsertAll(bus \cup {BusEntry(dev, proxy, Head(ranges))}, dev, proxy,
                        Tail(ranges), Append(done, Head(ranges)))

\* map_err(MmioInsert)? on the result of Bus::insert.
InsertFailedIgnored(ins) == FALSE
InsertFailed(ins) == ~ins.ok

\* The ranges of the two insert loops (io ranges first, then device ranges).
InsertedRangesIoOnly(io, dv) == io
InsertedRanges(io, dv) == io \o dv

RECURSIVE Filter(_, _)
\* The indices of seq, in order, whose device has (wanted) / has no (~wanted) jail.
Filter(idxs, wanted) ==
    IF idxs = <<>> THEN <<>>
    ELSE IF devs[Head(idxs)].jail = wanted
         THEN <<Head(idxs)>> \o Filter(Tail(idxs), wanted)
         ELSE Filter(Tail(idxs), wanted)

InputOrder == [i \in 1..Len(devs) |-> i]

\* devices.into_iter().enumerate().partition(jail.is_some()), sandboxed chained first.
RegistrarOrderUnpartitioned == InputOrder
RegistrarOrder == Filter(InputOrder, TRUE) \o Filter(InputOrder, FALSE)

rootFrame == <<cpuidVars, imageVars, inputVars, objs, pci_address, apc, acur, acalls, aresult, entry, devs, max_irqs>>

\* Lines 647-658: allocate_address on every device in input order, then the
\* empty side maps and the root bus.
RootAllocateAddresses ==
    /\ pc = "addresses"
    /\ \E failed \in {None} \cup (1..Len(devs)) :
         LET n == IF failed = None THEN Len(devs) ELSE failed
             calls == [i \in 1..n |-> Ev("allocate_address", i, devs[i].bus, <<>>, None)]
         IN /\ trace' = trace \o calls
            /\ IF failed = None
               THEN /\ device_addrs' = [i \in 1..Len(devs) |-> [bus |-> devs[i].bus, dev |-> i]]
                    /\ pc' = "topology"
                    /\ stack' = <<Frame(0, 0)>>
                    /\ tree' = {0}
                    /\ UNCHANGED result
               ELSE /\ device_addrs' = [i \in 1..(n - 1) |-> [bus |-> devs[i].bus, dev |-> i]]
                    /\ pc' = "failed"
                    /\ result' = "AllocateDeviceAddrs"
                    /\ UNCHANGED <<stack, tree>>
    /\ UNCHANGED <<rootFrame, resources, io_ranges, device_ranges, subordinate, irqs,
                   pci_irqs, order, mmio_bus, io_bus, root, hp_tube, hp_results>>

\* The pool slot of dev_idx: irqs[dev_idx % max_irqs], with indices from 1 here.
IrqSlotFirst(dev_idx) == 1
IrqSlot(dev_idx) == ((dev_idx - 1) % max_irqs) + 1

\* The gsi a device picks in assign_irq when it does not take the suggestion.
OwnGsi(dev_idx) == 10 + dev_idx

\* `?` on a failed step of the INTx loop (lines 683-685, 689-690, 697-699): the
\* error is returned.
IntxErrorSkipped(e) == "register"
IntxErrorPc(e) == "failed"

\* `if gsi != irq_num`: the INTx is reserved when it is not the default.
NeedsReserveAlways(gsi, irq_num) == TRUE
NeedsReserve(gsi, irq_num) == gsi # irq_num

\* Lines 669-676: the PciRoot and the empty IRQ pool.
RootIntxStart ==
    /\ pc = "intx"
    /\ irqs' = [k \in 1..max_irqs |-> None]
    /\ order' = InputOrder
    /\ pc' = "intx_loop"
    /\ UNCHANGED <<rootFrame, resources, device_addrs, stack, io_ranges, device_ranges, tree,
                   subordinate, pci_irqs, mmio_bus, io_bus, root, hp_tube, hp_results,
                   trace, result>>

\* Lines 677-703, one device: the suggested IRQ, the level event, assign_irq,
\* reserve_irq for a gsi of the device's own, the registration with the chip.
RootIntx ==
    /\ pc = "intx_loop"
    /\ order # <<>>
    /\ LET dev_idx == Head(order)
           slot == IrqSlot(dev_idx)
           fresh == irqs[slot] = None
           irq_num == IF fresh THEN resources.next_irq ELSE irqs[slot]
           how == devs[dev_idx].intx
           gsi == IF how = "own" THEN OwnGsi(dev_idx) ELSE irq_num
           allocated == IF fresh
                        THEN <<Ev("allocate_irq", dev_idx, irq_num, <<>>, None)>> ELSE <<>>
           assigned == Ev("assign_irq", dev_idx, irq_num, <<>>, None)
           reserved == IF how # "none" /\ NeedsReserve(gsi, irq_num)
                       THEN <<Ev("reserve_irq", dev_idx, gsi, <<>>, None)>> ELSE <<>>
           registered == Ev("register_level_irq_event", dev_idx, gsi, <<>>, None)
       IN \E fail \in {"none", "AllocateIrq", "EventCreate", "RegisterIrqfd"} :
            /\ fail = "AllocateIrq" => fresh
            /\ fail = "RegisterIrqfd" => how # "none"
            /\ IF fail = "AllocateIrq"
               THEN /\ trace' = Append(trace, Ev("allocate_irq_err", dev_idx, None, <<>>, None))
                    /\ UNCHANGED <<irqs, resources, pci_irqs>>
               ELSE /\ irqs' = [irqs EXCEPT ![slot] = irq_num]
                    /\ resources' = IF fresh
                                    THEN [resources EXCEPT !.next_irq = irq_num + 1]
                                    ELSE resources
                    /\ IF fail = "EventCreate"
                       THEN /\ trace' = trace \o allocated
                            /\ UNCHANGED pci_irqs
                       ELSE IF how = "none"
                       THEN /\ trace' = (trace \o allocated) \o <<assigned>>
                            /\ UNCHANGED pci_irqs
                       ELSE /\ trace' = (((trace \o allocated) \o <<assigned>>) \o reserved)
                                           \o <<registered>>
                            /\ pci_irqs' = IF fail = "none"
                                           THEN Append(pci_irqs,
                                                  <<device_addrs[dev_idx], gsi, "pin">>)
                                           ELSE pci_irqs
            /\ IF fail = "none"
               THEN /\ order' = Tail(order)
                    /\ UNCHANGED <<pc, result>>
               ELSE /\ pc' = IntxErrorPc(fail)
                    /\ result' = fail
                    /\ UNCHANGED order
    /\ UNCHANGED <<rootFrame, device_addrs, stack, io_ranges, device_ranges, tree,
                   subordinate, mmio_bus, io_bus, root, hp_tube, hp_results>>

\* Lines 705-715: the devices are partitioned, the sandboxed ones go first.
RootPartition ==
    /\ pc = "intx_loop"
    /\ order = <<>>
    /\ order' = RegistrarOrder
    /\ pc' = "register"
    /\ UNCHANGED <<rootFrame, resources, device_addrs, stack, io_ranges, device_ranges, tree,
                   subordinate, irqs, pci_irqs, mmio_bus, io_bus, root, hp_tube, hp_results,
                   trace, result>>

\* Lines 716-766, one device: capabilities, ioevents, the proxy (fork) or
\* on_sandboxed, root.add_device, the inserts into mmio_bus.
RootRegister ==
    /\ pc = "register"
    /\ order # <<>>
    /\ LET dev_idx == Head(order)
           jail == devs[dev_idx].jail
           ranges == MapTake(io_ranges, dev_idx)
           dranges == MapTake(device_ranges, dev_idx)
           ins == InsertAll(mmio_bus, dev_idx, jail, InsertedRanges(ranges, dranges), <<>>)
           caps == Ev("register_device_capabilities", dev_idx, None, <<>>, None)
           ioev == Ev("register_ioevent", dev_idx, None, <<>>, None)
           sandbox == IF jail THEN ProxyNew(dev_idx, BootKeepRds(dev_idx))
                      ELSE Ev("on_sandboxed", dev_idx, None, <<>>, None)
           added == Ev("add_device", dev_idx, device_addrs[dev_idx].bus, <<>>, None)
           inserts == [k \in 1..Len(ins.done) |->
                         Ev("mmio_bus.insert", dev_idx, None, <<ins.done[k]>>, None)]
       IN \E fail \in {"none", "RegisterDeviceCapabilities", "RegisterIoevent",
                       "ProxyDeviceCreation"} :
            /\ fail = "ProxyDeviceCreation" => jail
            /\ io_ranges' = [k \in DOMAIN io_ranges \ {dev_idx} |-> io_ranges[k]]
            /\ device_ranges' = [k \in DOMAIN device_ranges \ {dev_idx} |-> device_ranges[k]]
            /\ IF fail = "RegisterDeviceCapabilities"
               THEN /\ trace' = trace \o <<caps>>
                    /\ pc' = "failed"
                    /\ result' = fail
                    /\ UNCHANGED <<order, mmio_bus, root>>
               ELSE IF fail = "RegisterIoevent"
               THEN /\ trace' = trace \o <<caps, ioev>>
                    /\ pc' = "failed"
                    /\ result' = fail
                    /\ UNCHANGED <<order, mmio_bus, root>>
               ELSE IF fail = "ProxyDeviceCreation"
               THEN /\ trace' = trace \o <<caps, ioev, sandbox>>
                    /\ pc' = "failed"
                    /\ result' = fail
                    /\ UNCHANGED <<order, mmio_bus, root>>
               ELSE /\ trace' = (trace \o <<caps, ioev, sandbox, added>>) \o inserts
                    /\ root' = root \cup {<<device_addrs[dev_idx], dev_idx>>}
                    /\ mmio_bus' = ins.bus
                    /\ IF ~InsertFailed(ins)
                       THEN /\ order' = Tail(order)
                            /\ UNCHANGED <<pc, result>>
                       ELSE /\ pc' = "failed"
                            /\ result' = "MmioInsert"
                            /\ UNCHANGED order
    /\ UNCHANGED <<rootFrame, resources, device_addrs, stack, tree, subordinate, irqs,
                   pci_irqs, io_bus, hp_tube, hp_results>>

\* Line 768: Ok((root, pci_irqs, pid_labels)).
RootReturn ==
    /\ pc = "register"
    /\ order = <<>>
    /\ pc' = "done"
    /\ result' = "Ok"
    /\ UNCHANGED <<rootFrame, resources, device_addrs, stack, io_ranges, device_ranges, tree,
                   subordinate, irqs, pci_irqs, order, mmio_bus, io_bus, root, hp_tube,
                   hp_results, trace>>

\* =================================================================
\* configure_pci_device (hot-plug)
\* =================================================================
\* The fallible calls of configure_pci_device in the order the code makes them,
\* each with the error its failure maps to.
HotplugCalls ==
    <<"allocate_address", "allocate_io_bars", "allocate_device_bars", "IrqLevelEvent::new",
      "register_level_irq_event", "register_device_capabilities", "register_ioevent",
      "ProxyDevice::new", "send">>

HotplugError(call) ==
    CASE call = "allocate_address" -> "AllocateDeviceAddrs"
      [] call = "allocate_io_bars" -> "AllocateIoAddrs"
      [] call = "allocate_device_bars" -> "AllocateDeviceAddrs"
      [] call = "IrqLevelEvent::new" -> "EventCreate"
      [] call = "register_level_irq_event" -> "RegisterIrqfd"
      [] call = "register_device_capabilities" -> "RegisterDeviceCapabilities"
      [] call = "register_ioevent" -> "RegisterIoevent"
      [] call = "ProxyDevice::new" -> "ProxyDeviceCreation"
      [] call = "send" -> "RegisterDevice"

\* The position of a call in HotplugCalls; past the end for "none".
CallNo(call) ==
    IF call = "none" THEN Len(HotplugCalls) + 1
    ELSE CHOOSE k \in 1..Len(HotplugCalls) : HotplugCalls[k] = call

\* The devices that can be hot-plugged as the id-th device of the VM: jailed or
\* not, with fresh BARs or with a BAR at an address that is already taken.
HotplugDevices(id) ==
    {[jail |-> j, intx |-> x, io_bars |-> io, device_bars |-> FreshDeviceBars(id)] :
        j \in BOOLEAN, x \in {"none", "own"},
        io \in {FreshIoBars(id), <<BarRange(0, 1, "mmio")>>}}

\* Lines 432-521 as one step: `fail` names the call that fails, "none" if none does.
\* One hot-plug is followed after a generate_pci_root that returned Ok.
ConfigurePciDevice ==
    /\ entry = "generate_pci_root"
    /\ pc = "done"
    /\ result = "Ok"
    /\ hp_results = <<>>
    /\ LET id == Len(devs) + Len(hp_results) + 1
       IN \E device \in HotplugDevices(id), fail \in Range(HotplugCalls) \cup {"none"} :
            LET reached(call) == CallNo(call) <= CallNo(fail)
                passed(call) == CallNo(call) < CallNo(fail)
                pci_addr == [bus |-> 0, dev |-> id]
                gsi == OwnGsi(id)
                ins == InsertAll(mmio_bus, id, device.jail,
                                 InsertedRanges(device.io_bars, device.device_bars), <<>>)
                E(op, bus, ranges) == <<Ev(op, id, bus, ranges, None)>>
                when(cond, evs) == IF cond THEN evs ELSE <<>>
                irq == device.intx # "none"
                calls ==
                    E("allocate_address", 0, <<>>)
                    \o when(reached("allocate_io_bars"),
                            E("allocate_io_bars", 0, device.io_bars))
                    \o when(reached("allocate_device_bars"),
                            E("allocate_device_bars", 0, device.device_bars))
                    \o when(passed("IrqLevelEvent::new"), E("assign_irq", None, <<>>))
                    \o when(passed("IrqLevelEvent::new") /\ irq,
                            E("reserve_irq", gsi, <<>>)
                            \o E("register_level_irq_event", gsi, <<>>))
                    \o when(reached("register_device_capabilities"),
                            E("register_device_capabilities", None, <<>>))
                    \o when(reached("register_ioevent"), E("register_ioevent", None, <<>>))
                    \o when(reached("ProxyDevice::new") /\ device.jail,
                            <<ProxyNew(id, HotplugKeepRds(id))>>)
                    \o when(reached("ProxyDevice::new") /\ ~device.jail,
                            E("on_sandboxed", None, <<>>))
                    \o when(reached("send"), E("send", 0, <<>>))
                    \o when(fail = "none",
                            [k \in 1..Len(ins.done) |->
                               Ev("mmio_bus.insert", id, None, <<ins.done[k]>>, None)])
            IN /\ fail = "register_level_irq_event" => irq
               /\ fail = "ProxyDevice::new" => device.jail
               /\ trace' = trace \o calls
               /\ hp_tube' = IF passed("send") THEN Append(hp_tube, <<pci_addr, id>>)
                             ELSE hp_tube
               /\ mmio_bus' = IF fail = "none" THEN ins.bus ELSE mmio_bus
               /\ hp_results' = Append(hp_results,
                                   IF fail # "none" THEN HotplugError(fail)
                                   ELSE IF InsertFailed(ins) THEN "MmioInsert" ELSE "Ok")
    /\ UNCHANGED <<rootFrame, resources, pc, device_addrs, stack, io_ranges, device_ranges,
                   tree, subordinate, irqs, pci_irqs, order, io_bus, root, result>>

\* =================================================================
\* The specifications
\* =================================================================
\* The bus numbers of the device vectors handed to generate_pci_root, and the
\* child buses their bridges announce.
RootBuses == {0, 1}
RootChildBuses == {1}

\* max_irqs as the callers pass it.
MaxIrqs == 2

RootStart ==
    /\ AssignIdle
    /\ CpuidIdle
    /\ ImageIdle
    /\ InputIdle
    /\ entry = "generate_pci_root"
    /\ pc = "addresses"
    /\ device_addrs = <<>>
    /\ subordinate = [i \in 1..Len(devs) |-> None]
    /\ stack = <<>>
    /\ io_ranges = <<>>
    /\ device_ranges = <<>>
    /\ tree = {}
    /\ irqs = <<>>
    /\ pci_irqs = <<>>
    /\ order = <<>>
    /\ mmio_bus = {}
    /\ io_bus = {}
    /\ root = {}
    /\ hp_tube = <<>>
    /\ hp_results = <<>>
    /\ trace = <<>>
    /\ result = "running"

\* generate_pci_root on every vector of jailed and unjailed bridges and leaves
\* with fresh BARs, then hot-plug.
Init ==
    /\ \E n \in 0..MaxDevs :
         \E jail \in [1..n -> BOOLEAN], bus \in [1..n -> RootBuses],
            child \in [1..n -> RootChildBuses \cup {None}] :
            devs = [i \in 1..n |->
                      [jail |-> jail[i], bus |-> bus[i], child |-> child[i],
                       intx |-> "suggested",
                       io_bars |-> FreshIoBars(i), device_bars |-> FreshDeviceBars(i)]]
    /\ max_irqs = MaxIrqs
    /\ RootStart

Next ==
    \/ RootAllocateAddresses
    \/ TopoRecurse
    \/ TopoBridgesDone
    \/ TopoLeaf
    \/ TopoReturnToBridge
    \/ TopoReturnToCaller
    \/ RootIntxStart
    \/ RootIntx
    \/ RootPartition
    \/ RootRegister
    \/ RootReturn
    \/ ConfigurePciDevice

Spec == Init /\ [][Next]_vars

\* The BARs the allocate calls of device dev_idx can return: fresh ones, or a
\* port BAR with a memory BAR reaching into the next device's space.
BarPlans(dev_idx) ==
    {[io_bars |-> FreshIoBars(dev_idx), device_bars |-> FreshDeviceBars(dev_idx)],
     [io_bars |-> <<BarRange(2 * (dev_idx - 1), 1, "pio")>>,
      device_bars |-> <<BarRange(2 * (dev_idx - 1) + 1, 2, "mmio")>>]}

\* generate_pci_root on vectors of unjailed leaves and bridges whose BARs vary
\* (hot-plugged devices are jailed or not).
InitBars ==
    /\ \E n \in 0..MaxDevs :
         \E jail \in [1..n -> {FALSE}], bus \in [1..n -> RootBuses],
            child \in [1..n -> RootChildBuses \cup {None}] :
            \E plan \in [1..n -> UNION {BarPlans(i) : i \in 1..n}] :
               /\ \A i \in 1..n : plan[i] \in BarPlans(i)
               /\ devs = [i \in 1..n |->
                            [jail |-> jail[i], bus |-> bus[i], child |-> child[i],
                             intx |-> "suggested",
                             io_bars |-> plan[i].io_bars,
                             device_bars |-> plan[i].device_bars]]
    /\ max_irqs = MaxIrqs
    /\ RootStart

SpecBars == InitBars /\ [][Next]_vars

\* generate_pci_root on vectors of jailed and unjailed leaves and bridges of the
\* root bus whose BARs vary: every step of the build can be the one that fails.
InitFail ==
    /\ \E n \in 0..MaxDevs :
         \E jail \in [1..n -> BOOLEAN], child \in [1..n -> RootChildBuses \cup {None}] :
            \E plan \in [1..n -> UNION {BarPlans(i) : i \in 1..n}] :
               /\ \A i \in 1..n : plan[i] \in BarPlans(i)
               /\ devs = [i \in 1..n |->
                            [jail |-> jail[i], bus |-> 0, child |-> child[i],
                             intx |-> "suggested",
                             io_bars |-> plan[i].io_bars,
                             device_bars |-> plan[i].device_bars]]
    /\ max_irqs = MaxIrqs
    /\ RootStart

SpecFail == InitFail /\ [][Next]_vars

\* =================================================================
\* Properties
\* =================================================================
Events == 1..Len(trace)

\* The devices of the vector handed to generate_pci_root / generate_pci_topology.
Boot == 1..Len(devs)

IsFork(p) == trace[p].op = "ProxyDevice::new"
IsOnSandboxed(p) == trace[p].op = "on_sandboxed"

\* C1: in generate_pci_root every jailed device's proxy is created before the
\* first on_sandboxed call of an unjailed device, and inside the jailed group
\* and inside the unjailed group the devices are handled in input order.
C1_SandboxedFirst ==
    LET forks == {p \in Events : IsFork(p) /\ trace[p].dev \in Boot}
        calls == {p \in Events : IsOnSandboxed(p) /\ trace[p].dev \in Boot}
    IN /\ \A p \in calls : \A i \in Boot :
            devs[i].jail => \E q \in forks : q < p /\ trace[q].dev = i
       /\ \A p \in calls : \A q \in forks : q < p
       /\ \A p, q \in forks : p < q => trace[p].dev < trace[q].dev
       /\ \A p, q \in calls : p < q => trace[p].dev < trace[q].dev

\* An unjailed device listed before two jailed ones, all three registered.
C1_Witness ==
    /\ entry = "generate_pci_root" /\ result = "Ok"
    /\ Len(devs) = 3 /\ ~devs[1].jail /\ devs[2].jail /\ devs[3].jail
    /\ \E p, q, r \in Events :
         /\ p < q /\ q < r
         /\ IsFork(p) /\ trace[p].dev = 2
         /\ IsFork(q) /\ trace[q].dev = 3
         /\ IsOnSandboxed(r) /\ trace[r].dev = 1

\* C2: over generate_pci_root followed by configure_pci_device calls, no
\* ProxyDevice is created after an on_sandboxed callback has run in the process.
C2_NoForkAfterOnSandboxed ==
    \A p, q \in Events : ~(p < q /\ IsOnSandboxed(p) /\ IsFork(q))

\* The ranges the allocate calls returned for device d.
Recorded(d) ==
    UNION {Range(trace[p].ranges) :
             p \in {p \in Events : /\ trace[p].op \in {"allocate_io_bars", "allocate_device_bars"}
                                   /\ trace[p].dev = d}}

\* The devices whose generate_pci_root / configure_pci_device call succeeded.
Settled ==
    (IF entry = "generate_pci_root" /\ result = "Ok" THEN Boot ELSE {})
    \cup (IF hp_results = <<"Ok">> THEN {Len(devs) + 1} ELSE {})

OnBus(bus, d, r) == \E e \in bus : e.dev = d /\ e.lo = r.addr /\ e.hi = r.addr + r.size

\* C3 as stated: after a successful generate_pci_root or configure_pci_device
\* every recorded memory range is in mmio_bus and every recorded port range is
\* in io_bus and not in mmio_bus.
C3_RangesOnBusOfKind ==
    \A d \in Settled : \A r \in Recorded(d) :
        IF r.kind = "pio"
        THEN OnBus(io_bus, d, r) /\ ~OnBus(mmio_bus, d, r)
        ELSE OnBus(mmio_bus, d, r)

\* C3 as amended: after a successful generate_pci_root or configure_pci_device
\* every recorded range, whatever its kind, is in mmio_bus, and nothing was
\* inserted into io_bus.
C3_RangesOnMmioBus ==
    /\ \A d \in Settled : \A r \in Recorded(d) : OnBus(mmio_bus, d, r)
    /\ io_bus = {}

\* A build with a port BAR and a memory BAR of one device, then a hot-plug.
C3_Witness ==
    /\ result = "Ok" /\ hp_results = <<"Ok">>
    /\ \E d \in Boot : \E r1, r2 \in Recorded(d) :
         /\ r1.kind = "pio" /\ r2.kind = "mmio"
         /\ OnBus(mmio_bus, d, r1) /\ OnBus(mmio_bus, d, r2)
    /\ \E r \in Recorded(Len(devs) + 1) : OnBus(mmio_bus, Len(devs) + 1, r)

RangesOverlap(r1, r2) == r1.addr < r2.addr + r2.size /\ r2.addr < r1.addr + r1.size

IsInsert(p) == trace[p].op = "mmio_bus.insert" /\ trace[p].dev \in Boot

\* C4: after a successful generate_pci_root a lookup of every address of every
\* range the allocate calls returned yields the device; no two installed ranges
\* overlap; the build fails with MmioInsert exactly at an insert that overlaps
\* an installed range.
C4_LookupYieldsDevice ==
    /\ (entry = "generate_pci_root" /\ result = "Ok") =>
         \A d \in Boot : \A r \in Recorded(d) :
            \A x \in r.addr..(r.addr + r.size - 1) : BusLookup(mmio_bus, x) = d
    /\ \A e1, e2 \in mmio_bus : e1 # e2 => (e1.hi <= e2.lo \/ e2.hi <= e1.lo)
    /\ \A p \in Events :
         (IsInsert(p) /\ \E q \in 1..(p - 1) :
                            IsInsert(q) /\ RangesOverlap(trace[q].ranges[1], trace[p].ranges[1]))
            => (p = Len(trace) /\ result = "MmioInsert")
    /\ result = "MmioInsert" =>
         /\ IsInsert(Len(trace))
         /\ \E q \in 1..(Len(trace) - 1) :
              IsInsert(q) /\ RangesOverlap(trace[q].ranges[1], trace[Len(trace)].ranges[1])

\* Three devices behind each other's BARs, all found by lookup.
C4_Witness ==
    /\ entry = "generate_pci_root" /\ result = "Ok"
    /\ Cardinality({d \in Boot : Recorded(d) # {}}) >= 2
    /\ \E d \in Boot : \E r \in Recorded(d) :
         r.size = 2 /\ BusLookup(mmio_bus, r.addr + 1) = d

PrefersAddress(i) == objs[i].pci /\ objs[i].pref # None

\* Two devices prefer one address, or a device prefers an address the allocator
\* did not have when assign_pci_addresses was called.
PreferredUnavailable ==
    \E i \in 1..Len(objs) :
        /\ PrefersAddress(i)
        /\ \/ objs[i].pref \notin resources.pci_initial
           \/ \E j \in 1..Len(objs) : j # i /\ PrefersAddress(j) /\ objs[j].pref = objs[i].pref

\* C5: when assign_pci_addresses returns Ok every device with a preferred
\* address holds it; when a preferred address is unavailable the call returns
\* AllocateDeviceAddrs, and the call that failed is the last one made.
C5_PreferredHeld ==
    /\ aresult = "Ok" =>
         \A i \in 1..Len(objs) : PrefersAddress(i) => pci_address[i] = objs[i].pref
    /\ (apc = "done" /\ PreferredUnavailable) => aresult = "AllocateDeviceAddrs"
    /\ aresult = "AllocateDeviceAddrs" =>
         /\ apc = "done" /\ acalls # <<>>
         /\ pci_address[acalls[Len(acalls)]] = None
         /\ \A k \in 1..(Len(acalls) - 1) : pci_address[acalls[k]] # None

\* Ok with two preferred devices listed after a device without preference.
C5_Witness ==
    /\ aresult = "Ok" /\ Len(objs) = 3
    /\ objs[1].pci /\ objs[1].pref = None
    /\ PrefersAddress(2) /\ PrefersAddress(3)
    /\ pci_address[2] = objs[2].pref /\ pci_address[3] = objs[3].pref

\* C6: allocate_address is called on every PCI device with a preferred address
\* before any PCI device without one, in input order inside each group; each
\* PCI device is called at most once, exactly once when the call returns Ok, and
\* a device that is no PCI device is never called.
C6_PreferredFirst ==
    /\ \A p, q \in 1..Len(acalls) :
         p < q =>
            /\ objs[acalls[p]].pref = None => objs[acalls[q]].pref = None
            /\ (objs[acalls[p]].pref = None <=> objs[acalls[q]].pref = None)
                  => acalls[p] < acalls[q]
    /\ \A p \in 1..Len(acalls) : objs[acalls[p]].pci
    /\ aresult = "Ok" => \A i \in 1..Len(objs) : objs[i].pci => i \in Range(acalls)

\* A device without preference listed first is called last.
C6_Witness ==
    /\ aresult = "Ok" /\ Len(objs) = 3
    /\ \E i \in 1..3 : ~objs[i].pci
    /\ Len(acalls) = 2 /\ acalls[1] > acalls[2]

RECURSIVE BusesBelow(_, _)
\* The bus numbers reachable from the buses S through at most n bridges.
BusesBelow(S, n) ==
    IF n = 0 THEN S
    ELSE BusesBelow(S \cup {GetNewPciBus(devs[k]) :
                              k \in {k \in Boot : /\ device_addrs[k].bus \in S
                                                  /\ GetNewPciBus(devs[k]) # None}},
                    n - 1)

Reach(bus) == BusesBelow({bus}, Len(devs))

Greatest(S) == CHOOSE x \in S : \A y \in S : y <= x

IsBridge(k) == GetNewPciBus(devs[k]) # None

\* C7: after generate_pci_topology returns Ok every bridge of the tree holds,
\* as subordinate bus, the greatest bus number reachable through it; the
\* subordinate value of a call is never below the call's own bus number.
C7_SubordinateIsGreatestBelow ==
    /\ (entry = "generate_pci_topology" /\ result = "Ok") =>
         \A j \in Boot :
            (IsBridge(j) /\ device_addrs[j].bus \in Reach(0)) =>
               subordinate[j] = Greatest(Reach(GetNewPciBus(devs[j])))
    /\ \A k \in 1..Len(stack) : stack[k].subordinate_bus >= stack[k].bus_num
    /\ \A p \in Events : trace[p].op = "topology_ok" => trace[p].bus >= 0

\* A bridge whose subordinate bus lies beyond its child bus.
C7_Witness ==
    /\ entry = "generate_pci_topology" /\ result = "Ok"
    /\ \E j \in Boot : IsBridge(j) /\ subordinate[j] > GetNewPciBus(devs[j])

BridgeOps == {"generate_pci_topology", "add_child_bus", "configure_bridge_window",
              "bridge_window"}
AllocOps == {"allocate_io_bars", "allocate_io_bars_err",
             "allocate_device_bars", "allocate_device_bars_err"}

IsLeafAlloc(p) == trace[p].op \in AllocOps /\ ~IsBridge(trace[p].dev)

\* C8: inside a generate_pci_topology call every bridge of the bus is handled
\* completely before a leaf of the bus gets its BARs; configure_bridge_window
\* comes after the BAR allocation of every device on the child bus and below,
\* with a list that holds the BARs and the bridge windows of the child bus.
C8_BridgesBeforeLeaves ==
    /\ \A p \in Events :
         IsLeafAlloc(p) =>
            /\ \A k \in Boot :
                 (IsBridge(k) /\ device_addrs[k].bus = trace[p].bus) =>
                    \E q1 \in 1..(p - 1) :
                       /\ trace[q1].op = "generate_pci_topology"
                       /\ trace[q1].dev = k /\ trace[q1].call = trace[p].call
                       /\ \E q2 \in (q1 + 1)..(p - 1) :
                            /\ trace[q2].op = "configure_bridge_window"
                            /\ trace[q2].dev = k /\ trace[q2].call = trace[p].call
                            /\ \E q3 \in (q2 + 1)..(p - 1) :
                                 /\ trace[q3].op = "allocate_device_bars"
                                 /\ trace[q3].dev = k /\ trace[q3].call = trace[p].call
            /\ \A q \in (p + 1)..Len(trace) :
                 trace[q].call = trace[p].call =>
                    /\ trace[q].op \notin BridgeOps
                    /\ trace[q].op \in AllocOps => ~IsBridge(trace[q].dev)
    /\ \A p \in Events :
         trace[p].op = "configure_bridge_window" =>
            LET child_bus == trace[p].bus
                given == Range(trace[p].ranges)
            IN /\ \A e \in Boot :
                    device_addrs[e].bus \in Reach(child_bus) =>
                       \E q \in 1..(p - 1) :
                          trace[q].op = "allocate_device_bars" /\ trace[q].dev = e
               /\ \A e \in Boot :
                    device_addrs[e].bus = child_bus =>
                       /\ Range(devs[e].io_bars) \cup Range(devs[e].device_bars) \subseteq given
                       /\ IsBridge(e) =>
                            \E q \in 1..(p - 1) :
                               /\ trace[q].op = "bridge_window" /\ trace[q].dev = e
                               /\ Range(trace[q].ranges) \subseteq given

\* A bridge whose window is configured over a leaf and a nested bridge.
C8_Witness ==
    /\ entry = "generate_pci_topology" /\ result = "Ok"
    /\ \E p \in Events :
         /\ trace[p].op = "configure_bridge_window"
         /\ \E e1, e2 \in Boot :
              /\ device_addrs[e1].bus = trace[p].bus /\ IsBridge(e1)
              /\ device_addrs[e2].bus = trace[p].bus /\ ~IsBridge(e2)

IsRootOp(p) == trace[p].op \in {"mmio_bus.insert", "add_device"} /\ trace[p].dev \in Boot

TopologyReturnedOk(p) == \E q \in 1..(p - 1) : trace[q].op = "topology_ok"

\* C9: generate_pci_root installs no bus mapping and adds no device to the
\* root before generate_pci_topology has returned Ok, and when the build fails
\* before that the bus registries and the root hold nothing.
C9_AllocationBeforeMapping ==
    /\ \A p \in Events : IsRootOp(p) => TopologyReturnedOk(p)
    /\ (entry = "generate_pci_root" /\ result \notin {"running", "Ok"}
          /\ ~TopologyReturnedOk(Len(trace) + 1)) =>
         (mmio_bus = {} /\ io_bus = {} /\ root = {})

\* Topology generation fails after BARs were allocated for a device.
C9_Witness ==
    /\ entry = "generate_pci_root" /\ result = "BrokenPciTopology"
    /\ DOMAIN io_ranges # {}
    /\ mmio_bus = {} /\ root = {}

\* C10: generate_pci_topology never enters a bus whose number is the root bus's
\* or was entered before; the conflict ends the call with BrokenPciTopology.
C10_NoBusRevisited ==
    \A p \in Events :
        trace[p].op = "generate_pci_topology" =>
            /\ trace[p].bus # 0
            /\ \A q \in 1..(p - 1) :
                 trace[q].op = "generate_pci_topology" => trace[q].bus # trace[p].bus

\* =================================================================
\* The INTx pool of generate_pci_root
\* =================================================================
\* generate_pci_root on unjailed leaves and bridges of the root bus that take
\* the suggested IRQ, pick a gsi of their own or use no INTx, for every pool
\* size from 1.
InitIrq ==
    /\ \E n \in 0..MaxDevs :
         \E intx \in [1..n -> {"suggested", "own", "none"}],
            child \in [1..n -> RootChildBuses \cup {None}] :
            devs = [i \in 1..n |->
                      [jail |-> FALSE, bus |-> 0, child |-> child[i], intx |-> intx[i],
                       io_bars |-> FreshIoBars(i), device_bars |-> FreshDeviceBars(i)]]
    /\ max_irqs \in 1..MaxIrqs
    /\ RootStart

SpecIrq == InitIrq /\ [][Next]_vars

\* The pool slot the specification gives device dev: its index from 0, modulo
\* max_irqs.
PoolSlot(dev) == (dev - 1) % max_irqs

IsSuggestion(p) == trace[p].op = "assign_irq" /\ trace[p].dev \in Boot

IsAllocateIrq(p) ==
    trace[p].op \in {"allocate_irq", "allocate_irq_err"} /\ trace[p].dev \in Boot

\* C11: the IRQ suggested to device i is the one allocated for pool slot
\* i mod max_irqs; devices i and i + max_irqs get the same suggestion; a device
\* that takes the suggestion is registered with it; allocate_irq is called at
\* most max_irqs times, once per slot and at the slot's first use.
C11_RoundRobinPool ==
    (entry = "generate_pci_root" /\ max_irqs >= 1) =>
        LET suggestions == {p \in Events : IsSuggestion(p)}
            allocations == {p \in Events : IsAllocateIrq(p)}
        IN /\ \A p \in suggestions :
                \E q \in allocations :
                   /\ q < p /\ trace[q].op = "allocate_irq"
                   /\ PoolSlot(trace[q].dev) = PoolSlot(trace[p].dev)
                   /\ trace[q].bus = trace[p].bus
           /\ \A p, q \in suggestions :
                trace[q].dev = trace[p].dev + max_irqs => trace[q].bus = trace[p].bus
           /\ \A p \in suggestions :
                devs[trace[p].dev].intx = "suggested" =>
                   /\ \A q \in Events :
                        (trace[q].op = "register_level_irq_event"
                           /\ trace[q].dev = trace[p].dev) => trace[q].bus = trace[p].bus
                   /\ \A k \in 1..Len(pci_irqs) :
                        pci_irqs[k][1] = device_addrs[trace[p].dev]
                           => pci_irqs[k][2] = trace[p].bus
           /\ Cardinality(allocations) <= max_irqs
           /\ \A p, q \in allocations :
                p # q => PoolSlot(trace[p].dev) # PoolSlot(trace[q].dev)
           /\ \A p \in allocations :
                /\ trace[p].dev <= max_irqs
                /\ \A q \in suggestions :
                     q < p => PoolSlot(trace[q].dev) # PoolSlot(trace[p].dev)

\* Three devices on a pool of two: the first and the third share an IRQ, the
\* second picks its own.
C11_Witness ==
    /\ entry = "generate_pci_root" /\ result = "Ok"
    /\ max_irqs = 2 /\ Len(devs) = 3
    /\ devs[1].intx = "suggested" /\ devs[2].intx = "own" /\ devs[3].intx = "suggested"
    /\ Len(pci_irqs) = 3
    /\ pci_irqs[1][2] = pci_irqs[3][2] /\ pci_irqs[2][2] # pci_irqs[1][2]
    /\ Cardinality({p \in Events : IsAllocateIrq(p)}) = 2

\* =================================================================
\* adjust_cpuid and filter_cpuid (x86_64/src/cpuid.rs)
\* =================================================================
\* A u32 register is the set of its set bits: | is \cup, & is \cap, & ! is \.
Word == 0..31

\* The bits of a number below 2^31.
Bits(n) == {i \in 0..30 : (n \div (2 ^ i)) % 2 = 1}

RECURSIVE Value(_)
\* The number a set of bits below bit 31 stands for.
Value(bits) ==
    IF bits = {} THEN 0
    ELSE LET i == CHOOSE x \in bits : TRUE IN (2 ^ i) + Value(bits \ {i})

\* value << k in 32 bits (and `usize << k as u32`): bits shifted past bit 31
\* are lost.
Shl(bits, k) == {i + k : i \in bits} \cap Word

\* 32 - leading_zeros().
BitLength(bits) == IF bits = {} THEN 0 ELSE (CHOOSE i \in bits : \A j \in bits : j <= i) + 1

\* a < b as unsigned numbers.
Below(a, b) == \E i \in b \ a : \A j \in a \ b : j < i

\* cmp::max.
CmpMax(a, b) == IF Below(a, b) THEN b ELSE a

EBX_CLFLUSH_CACHELINE == 8
EBX_CLFLUSH_SIZE_SHIFT == 8
EBX_CPU_COUNT_SHIFT == 16
EBX_CPUID_SHIFT == 24
ECX_EPB_SHIFT == 3
ECX_X2APIC_SHIFT == 21
ECX_TSC_DEADLINE_TIMER_SHIFT == 24
ECX_HYPERVISOR_SHIFT == 31
EDX_HTT_SHIFT == 28
ECX_TOPO_TYPE_SHIFT == 8
ECX_TOPO_SMT_TYPE == 1
ECX_TOPO_CORE_TYPE == 2
ECX_HCFC_PERF_SHIFT == 0
EAX_CPU_CORES_SHIFT == 26
EDX_HYBRID_CPU_SHIFT == 15
EAX_HWP_SHIFT == 7
EAX_HWP_EPP_SHIFT == 10
EAX_ITMT_SHIFT == 14
EAX_CORE_TEMP == 0
EAX_PKG_TEMP == 6

\* The leaf 0x80000000 + n, as the 32-bit pattern read as a signed number.
ExtendedLeaf(n) == (n - 2147483647) - 1

CpuidResult(eax, ebx, ecx, edx) == [eax |-> eax, ebx |-> ebx, ecx |-> ecx, edx |-> edx]

CpuIdEntry(function, index, flags, cpuid) ==
    [function |-> function, index |-> index, flags |-> flags, cpuid |-> cpuid]

\* (ctx.cpuid)(function) and (ctx.cpuid_count)(function, index): probes that
\* answer every leaf alike, as the fakes of the tests do.
HostCpuid(h, function) == h.cpuid
HostCpuidCount(h, function, index) == h.cpuid_count

\* devices::tsc::fake_tsc_frequency_cpuid: the leaf 0x15 in ratio form.
FakeTscFrequencyCpuid(tsc_freq, apic_frequency) ==
    CpuidResult(Bits(1), Bits(tsc_freq \div apic_frequency), Bits(apic_frequency), {})

\* 1 << shift.
Bit(shift) == {shift}

\* ---- the arms of the match in adjust_cpuid ----
\* Leaf 0, lines 125-130.
AdjustLeaf0Kept(e, c) == e
AdjustLeaf0(e, c) ==
    IF c.tsc_frequency # None
    THEN [e EXCEPT !.cpuid.eax = CmpMax(Bits(21), e.cpuid.eax)]
    ELSE e

\* Lines 133-135: the hypervisor-present bit.
HypervisorDropped(e) == {}
Hypervisor(e) == IF e.index = 0 THEN Bit(ECX_HYPERVISOR_SHIFT) ELSE {}

\* Lines 136-140: the x2APIC bit is set or cleared.
X2Apic(ecx, c) ==
    IF c.x2apic THEN ecx \cup Bit(ECX_X2APIC_SHIFT) ELSE ecx \ Bit(ECX_X2APIC_SHIFT)

\* Lines 141-143: the TSC deadline bit is set, never cleared.
TscDeadlineTimer(ecx, c) ==
    IF c.tsc_deadline_timer THEN ecx \cup Bit(ECX_TSC_DEADLINE_TIMER_SHIFT) ELSE ecx

\* Lines 154-155: (vcpu_id << 24) as u32 | (8 << 8).
Leaf1Ebx(c) ==
    Shl(Bits(c.vcpu_id), EBX_CPUID_SHIFT)
       \cup Shl(Bits(EBX_CLFLUSH_CACHELINE), EBX_CLFLUSH_SIZE_SHIFT)

\* Line 158: (cpu_count as u32) << 16.
Leaf1CpuCount(c) == Shl(Bits(c.cpu_count), EBX_CPU_COUNT_SHIFT)

\* Leaf 1, lines 131-164.
AdjustLeaf1(e, c, h) ==
    LET ecx == TscDeadlineTimer(X2Apic(e.cpuid.ecx \cup Hypervisor(e), c), c)
    IN IF c.host_cpu_topology
       THEN [e EXCEPT !.cpuid.ecx = ecx,
                      !.cpuid.ebx = @ \cup Shl(Bits(EBX_CLFLUSH_CACHELINE),
                                               EBX_CLFLUSH_SIZE_SHIFT),
                      !.cpuid.edx = @ \cup (HostCpuid(h, e.function).edx
                                              \cap Bit(EDX_HTT_SHIFT))]
       ELSE IF c.cpu_count > 1
       THEN [e EXCEPT !.cpuid.ecx = ecx,
                      !.cpuid.ebx = Leaf1Ebx(c) \cup Leaf1CpuCount(c),
                      !.cpuid.edx = @ \cup Bit(EDX_HTT_SHIFT)]
       ELSE [e EXCEPT !.cpuid.ecx = ecx, !.cpuid.ebx = Leaf1Ebx(c)]

\* Leaves 2 and 0x80000002 to 0x80000006, lines 165-168.
AdjustHostLeaf(e, c, h) == [e EXCEPT !.cpuid = HostCpuid(h, e.function)]

\* Lines 178-184.
CpuCores(c) ==
    IF c.no_smt THEN c.cpu_count
    ELSE IF c.cpu_count % 2 = 0 THEN c.cpu_count \div 2
    ELSE 1

\* Lines 172-174: with the host topology the probe's answer is final.
Leaf4HostTopologyIgnored(c) == FALSE
Leaf4HostTopology(c) == c.host_cpu_topology

\* Leaf 4, lines 169-187.
AdjustLeaf4(e, c, h) ==
    LET r == HostCpuidCount(h, e.function, e.index)
        eax == r.eax \ (EAX_CPU_CORES_SHIFT..31)
    IN IF Leaf4HostTopology(c) THEN [e EXCEPT !.cpuid = r]
       ELSE IF c.cpu_count > 1
       THEN [e EXCEPT !.cpuid = [r EXCEPT !.eax = eax \cup Shl(Bits(CpuCores(c) - 1),
                                                               EAX_CPU_CORES_SHIFT)]]
       ELSE [e EXCEPT !.cpuid = [r EXCEPT !.eax = eax]]

\* Leaf 6, lines 188-212.
AdjustLeaf6Kept(e, c, h) == e
AdjustLeaf6(e, c, h) ==
    LET probe == HostCpuid(h, e.function)
        itmt == IF c.itmt
                THEN probe.eax \cap {EAX_ITMT_SHIFT, EAX_HWP_SHIFT, EAX_HWP_EPP_SHIFT}
                ELSE {}
        pnp_eax == IF c.enable_pnp_data
                   THEN probe.eax \cap {EAX_CORE_TEMP, EAX_PKG_TEMP} ELSE {}
        pnp_ecx == IF c.enable_pnp_data
                   THEN probe.ecx \cap Bit(ECX_HCFC_PERF_SHIFT) ELSE {}
    IN [e EXCEPT !.cpuid.ecx = (@ \ Bit(ECX_EPB_SHIFT)) \cup pnp_ecx,
                 !.cpuid.eax = (@ \cup itmt) \cup pnp_eax]

\* Leaf 7, lines 213-220.
AdjustLeaf7(e, c, h) ==
    IF c.host_cpu_topology /\ e.index = 0
    THEN [e EXCEPT !.cpuid.edx = @ \cup (HostCpuidCount(h, e.function, e.index).edx
                                           \cap Bit(EDX_HYBRID_CPU_SHIFT))]
    ELSE e

\* Leaf 0x15, lines 221-239.
AdjustLeaf15HostFirst(e, c, h) ==
    IF c.enable_pnp_data THEN [e EXCEPT !.cpuid = HostCpuid(h, e.function)] ELSE e
AdjustLeaf15(e, c, h) ==
    IF c.calibrated_tsc_leaf_required \/ c.force_calibrated_tsc_leaf
    THEN IF c.tsc_frequency # None
         THEN [e EXCEPT !.cpuid = FakeTscFrequencyCpuid(c.tsc_frequency, c.apic_frequency)]
         ELSE e
    ELSE IF c.enable_pnp_data THEN [e EXCEPT !.cpuid = HostCpuid(h, e.function)]
    ELSE e

\* Leaf 0x1A, lines 240-247.
AdjustLeaf1A(e, c, h) ==
    IF c.host_cpu_topology THEN [e EXCEPT !.cpuid = HostCpuid(h, e.function)] ELSE e

\* Lines 269 and 275: 32 - ((cpu_count - 1) as u32).leading_zeros(), the
\* subtraction wrapped around when cpu_count is 0.
CpuBits(c) == IF c.cpu_count = 0 THEN 32 ELSE BitLength(Bits(c.cpu_count - 1))

\* Line 256: the x2APIC ID, written for every index.
TopologyEdxKept(e, c) == e.cpuid.edx
TopologyEdx(e, c) == Bits(c.vcpu_id)

\* Lines 258-272: eax and ebx of the SMT level.
SmtLevelEven(c) ==
    IF c.no_smt \/ c.cpu_count = 1 THEN [eax |-> Bits(0), ebx |-> Bits(1)]
    ELSE [eax |-> Bits(1), ebx |-> Bits(2)]
SmtLevel(c) ==
    IF c.no_smt \/ c.cpu_count = 1 THEN [eax |-> Bits(0), ebx |-> Bits(1)]
    ELSE IF c.cpu_count % 2 = 0 THEN [eax |-> Bits(1), ebx |-> Bits(2)]
    ELSE [eax |-> Bits(CpuBits(c)), ebx |-> Bits(c.cpu_count)]

\* Lines 249-251: with the host topology the entry is left as it is.
TopologyHostIgnored(c) == FALSE
TopologyHost(c) == c.host_cpu_topology

\* Leaves 0xB and 0x1F, lines 248-285.
AdjustTopologyLeaf(e, c, h) ==
    IF TopologyHost(c) THEN e
    ELSE IF e.index = 0
    THEN [e EXCEPT !.cpuid = CpuidResult(
                       SmtLevel(c).eax, SmtLevel(c).ebx,
                       Shl(Bits(ECX_TOPO_SMT_TYPE), ECX_TOPO_TYPE_SHIFT) \cup Bits(e.index),
                       TopologyEdx(e, c))]
    ELSE IF e.index = 1
    THEN [e EXCEPT !.cpuid = CpuidResult(
                       Bits(CpuBits(c)), Bits(c.cpu_count) \cap (0..15),
                       Shl(Bits(ECX_TOPO_CORE_TYPE), ECX_TOPO_TYPE_SHIFT) \cup Bits(e.index),
                       TopologyEdx(e, c))]
    ELSE [e EXCEPT !.cpuid = CpuidResult({}, {}, {}, TopologyEdx(e, c))]

\* cpu_count - 1 on a usize of 0 (line 275; line 269 is reached with an odd
\* cpu_count only): a panic in a build with overflow checks, a wrap without.
SubtractionOverflows(e, c) ==
    /\ e.function \in {11, 31}
    /\ ~c.host_cpu_topology
    /\ e.index = 1
    /\ c.cpu_count = 0

\* adjust_cpuid, lines 123-288: the match on entry.function.
AdjustCpuidHostEverywhere(e, c, h) == AdjustHostLeaf(e, c, h)
AdjustCpuid(e, c, h) ==
    CASE e.function = 0 -> AdjustLeaf0(e, c)
      [] e.function = 1 -> AdjustLeaf1(e, c, h)
      [] e.function \in {2} \cup {ExtendedLeaf(n) : n \in 2..6} -> AdjustHostLeaf(e, c, h)
      [] e.function = 4 -> AdjustLeaf4(e, c, h)
      [] e.function = 6 -> AdjustLeaf6(e, c, h)
      [] e.function = 7 -> AdjustLeaf7(e, c, h)
      [] e.function = 21 -> AdjustLeaf15(e, c, h)
      [] e.function = 26 -> AdjustLeaf1A(e, c, h)
      [] e.function \in {11, 31} -> AdjustTopologyLeaf(e, c, h)
      [] OTHER -> e

pciFrame == <<assignVars, rootVars, imageVars, inputVars>>

\* adjust_cpuid(&mut cpu_id_entry, &ctx), as the test cpuid_copies_register
\* calls it.
AdjustCpuidCall ==
    /\ cpc = "adjust"
    /\ \E overflow_checks \in BOOLEAN :
         IF SubtractionOverflows(cpu_id_entry, ctx) /\ overflow_checks
         THEN /\ cpc' = "panicked"
              /\ UNCHANGED cpu_id_entry
         ELSE /\ cpu_id_entry' = AdjustCpuid(cpu_id_entry, ctx, host)
              /\ cpc' = "adjusted"
    /\ UNCHANGED <<pciFrame, ctx, host, cpu_id_entries, original, cur, passes>>

\* filter_cpuid, lines 295-312: an empty leaf 0x15 is pushed when the TSC
\* frequency is known and the table has none.
NeedsTscLeafAlways(entries, c) == c.tsc_frequency # None
NeedsTscLeaf(entries, c) ==
    /\ c.tsc_frequency # None
    /\ ~\E k \in 1..Len(entries) : entries[k].function = 21

FilterPushTscLeaf ==
    /\ cpc = "filter"
    /\ NeedsTscLeaf(cpu_id_entries, ctx)
    /\ cpu_id_entries' = Append(cpu_id_entries,
                                CpuIdEntry(21, 0, 0, CpuidResult({}, {}, {}, {})))
    /\ cpc' = "loop"
    /\ UNCHANGED <<pciFrame, ctx, host, cpu_id_entry, original, cur, passes>>

FilterKeepTable ==
    /\ cpc = "filter"
    /\ ~NeedsTscLeaf(cpu_id_entries, ctx)
    /\ cpc' = "loop"
    /\ UNCHANGED <<pciFrame, ctx, host, cpu_id_entry, cpu_id_entries, original, cur, passes>>

\* filter_cpuid, lines 314-317: adjust_cpuid on the next entry.
FilterAdjust ==
    /\ cpc = "loop"
    /\ cur <= Len(cpu_id_entries)
    /\ \E overflow_checks \in BOOLEAN :
         IF SubtractionOverflows(cpu_id_entries[cur], ctx) /\ overflow_checks
         THEN /\ cpc' = "panicked"
              /\ UNCHANGED <<cpu_id_entries, cur>>
         ELSE /\ cpu_id_entries' = [cpu_id_entries EXCEPT
                                      ![cur] = AdjustCpuid(cpu_id_entries[cur], ctx, host)]
              /\ cur' = cur + 1
              /\ UNCHANGED cpc
    /\ UNCHANGED <<pciFrame, ctx, host, cpu_id_entry, original, passes>>

\* filter_cpuid, line 318: the loop is over.
FilterReturn ==
    /\ cpc = "loop"
    /\ cur > Len(cpu_id_entries)
    /\ cpc' = "filtered"
    /\ passes' = Append(passes, cpu_id_entries)
    /\ UNCHANGED <<pciFrame, ctx, host, cpu_id_entry, cpu_id_entries, original, cur>>

\* filter_cpuid is called once more on the table it returned, with the same
\* context.
FilterAgain ==
    /\ cpc = "filtered"
    /\ Len(passes) < 2
    /\ cpc' = "filter"
    /\ cur' = 1
    /\ UNCHANGED <<pciFrame, ctx, host, cpu_id_entry, cpu_id_entries, original, passes>>

\* ---- inputs ----
MaxIndex == 2
MaxEntries == 2

Zero == {}
Ones == Word

\* Register contents of the hypervisor-supplied entries: all bits clear, all
\* bits set, and the entry of the test cpuid_copies_register.
SuppliedResults ==
    {CpuidResult(Zero, Zero, Zero, Zero), CpuidResult(Ones, Ones, Ones, Ones),
     CpuidResult(Bits(31), Bits(41), Bits(59), Bits(26))}

\* The probes: all bits clear, all bits set, and the fakes of the test.
Hosts ==
    {[cpuid |-> CpuidResult(Zero, Zero, Zero, Zero),
      cpuid_count |-> CpuidResult(Zero, Zero, Zero, Zero)],
     [cpuid |-> CpuidResult(Ones, Ones, Ones, Ones),
      cpuid_count |-> CpuidResult(Ones, Ones, Ones, Ones)],
     [cpuid |-> CpuidResult(Zero, Zero, Zero, Zero),
      cpuid_count |-> CpuidResult(Bits(27), Bits(18), Bits(28), Bits(18))]}

VcpuIds == {0, 1, 256}
CpuCounts == {0, 1, 2, 3, 4, 5, 8, 65, 130, 256, 257, 65537}

CpuIdContext(vcpu_id, cpu_count, no_smt, x2apic, tsc_deadline_timer, tsc_frequency, host_cpu_topology) ==
    [vcpu_id |-> vcpu_id, cpu_count |-> cpu_count, no_smt |-> no_smt, x2apic |-> x2apic,
     tsc_deadline_timer |-> tsc_deadline_timer, apic_frequency |-> 1,
     tsc_frequency |-> tsc_frequency, force_calibrated_tsc_leaf |-> FALSE,
     calibrated_tsc_leaf_required |-> FALSE, host_cpu_topology |-> host_cpu_topology,
     enable_pnp_data |-> FALSE, itmt |-> FALSE]

\* adjust_cpuid on one entry of leaf 1, 4, 0xB or 0x1F.
InitAdjust ==
    /\ AssignIdle
    /\ RootIdle
    /\ ImageIdle
    /\ InputIdle
    /\ \E v \in VcpuIds, n \in CpuCounts, smt, x2, tsc, topo \in BOOLEAN :
         ctx = CpuIdContext(v, n, smt, x2, tsc, None, topo)
    /\ host \in Hosts
    /\ \E f \in {1, 4, 11, 31}, i \in 0..MaxIndex, r \in SuppliedResults :
         cpu_id_entry = CpuIdEntry(f, i, 0, r)
    /\ original = cpu_id_entry
    /\ cpu_id_entries = <<>>
    /\ passes = <<>>
    /\ cpc = "adjust"
    /\ cur = 1

NextAdjust == AdjustCpuidCall

SpecAdjust == InitAdjust /\ [][NextAdjust]_vars

\* The probes of the power and TSC leaves: those above and one that reports
\* some of the bits adjust_cpuid looks at together with bits it does not.
PowerHosts ==
    Hosts \cup {[cpuid |-> CpuidResult({0, 3, 7, 20}, Bits(5), {0, 3, 9}, Bits(6)),
                 cpuid_count |-> CpuidResult(Zero, Zero, Zero, Zero)]}

\* adjust_cpuid on one entry of leaf 6 or 0x15, for every setting of the
\* flags these leaves read.
InitLeaves ==
    /\ AssignIdle
    /\ RootIdle
    /\ ImageIdle
    /\ InputIdle
    /\ \E itmt, pnp, force, required \in BOOLEAN, freq \in {None, 6}, apic \in {1, 2} :
         ctx = [CpuIdContext(0, 2, FALSE, FALSE, FALSE, freq, FALSE) EXCEPT
                   !.itmt = itmt, !.enable_pnp_data = pnp,
                   !.force_calibrated_tsc_leaf = force,
                   !.calibrated_tsc_leaf_required = required,
                   !.apic_frequency = apic]
    /\ host \in PowerHosts
    /\ \E f \in {6, 21}, i \in {0, 1}, r \in SuppliedResults :
         cpu_id_entry = CpuIdEntry(f, i, 0, r)
    /\ original = cpu_id_entry
    /\ cpu_id_entries = <<>>
    /\ passes = <<>>
    /\ cpc = "adjust"
    /\ cur = 1

SpecLeaves == InitLeaves /\ [][NextAdjust]_vars

\* The entries of the tables filter_cpuid is run on.
FilterEntries ==
    {CpuIdEntry(1, i, 0, CpuidResult(r, r, r, r)) : i \in {0, 1}, r \in {Zero, Ones}}
    \cup {CpuIdEntry(0, 0, 0, CpuidResult(r, r, r, r)) : r \in {Bits(1), Bits(22)}}
    \cup {CpuIdEntry(11, i, 0, CpuidResult(Ones, Ones, Ones, Ones)) : i \in {0, 1}}
    \cup {CpuIdEntry(21, 0, 0, CpuidResult(Zero, Zero, Zero, Zero))}

\* filter_cpuid on tables of up to MaxEntries entries.
InitFilter ==
    /\ AssignIdle
    /\ RootIdle
    /\ ImageIdle
    /\ InputIdle
    /\ \E n \in {0, 2, 3}, smt, x2, tsc, topo \in BOOLEAN, freq \in {None, 1} :
         ctx = CpuIdContext(1, n, smt, x2, tsc, freq, topo)
    /\ host \in {h \in Hosts : h.cpuid = h.cpuid_count}
    /\ cpu_id_entries \in SeqsUpTo(FilterEntries, MaxEntries)
    /\ original = cpu_id_entries
    /\ cpu_id_entry = <<>>
    /\ passes = <<>>
    /\ cpc = "filter"
    /\ cur = 1

NextFilter ==
    \/ FilterPushTscLeaf
    \/ FilterKeepTable
    \/ FilterAdjust
    \/ FilterReturn

SpecFilter == InitFilter /\ [][NextFilter]_vars

\* Entries of leaves adjust_cpuid has no arm for (3, 0xD, 0x16, 0x1E,
\* 0x80000001, 0x80000007) and of leaves it rewrites, with indices and flags set.
FrameEntries ==
    LET r == CpuidResult(Bits(31), Bits(41), Bits(59), Bits(26))
    IN {CpuIdEntry(3, 0, 0, r), CpuIdEntry(13, 1, 1, r), CpuIdEntry(22, 0, 0, r),
        CpuIdEntry(30, 1, 0, r), CpuIdEntry(ExtendedLeaf(1), 0, 0, r),
        CpuIdEntry(ExtendedLeaf(7), 0, 1, r),
        CpuIdEntry(1, 0, 1, r), CpuIdEntry(6, 0, 0, r), CpuIdEntry(ExtendedLeaf(2), 0, 0, r)}

\* filter_cpuid on tables of those entries, with the flags that let the host
\* probe through set or clear.
InitFrame ==
    /\ AssignIdle
    /\ RootIdle
    /\ ImageIdle
    /\ InputIdle
    /\ \E topo, pnp, itmt \in BOOLEAN, freq \in {None, 1} :
         ctx = [CpuIdContext(1, 2, FALSE, TRUE, TRUE, freq, topo) EXCEPT
                   !.enable_pnp_data = pnp, !.itmt = itmt]
    /\ host \in {h \in Hosts : h.cpuid = h.cpuid_count}
    /\ cpu_id_entries \in SeqsUpTo(FrameEntries, MaxEntries)
    /\ original = cpu_id_entries
    /\ cpu_id_entry = <<>>
    /\ passes = <<>>
    /\ cpc = "filter"
    /\ cur = 1

SpecFrame == InitFrame /\ [][NextFilter]_vars

\* filter_cpuid twice on tables of up to MaxEntries entries.
InitTwice ==
    /\ AssignIdle
    /\ RootIdle
    /\ ImageIdle
    /\ InputIdle
    /\ \E n \in {0, 3}, x2, tsc, topo \in BOOLEAN, freq \in {None, 1} :
         ctx = CpuIdContext(1, n, FALSE, x2, tsc, freq, topo)
    /\ host \in {h \in Hosts : h.cpuid = h.cpuid_count}
    /\ cpu_id_entries \in SeqsUpTo(FilterEntries, MaxEntries)
    /\ original = cpu_id_entries
    /\ cpu_id_entry = <<>>
    /\ passes = <<>>
    /\ cpc = "filter"
    /\ cur = 1

NextTwice ==
    \/ FilterPushTscLeaf
    \/ FilterKeepTable
    \/ FilterAdjust
    \/ FilterReturn
    \/ FilterAgain

SpecTwice == InitTwice /\ [][NextTwice]_vars

\* =================================================================
\* load_image_high (arch/src/lib.rs)
\* =================================================================
\* Highest guest address and largest image size that are tried.
MaxAddr == 8

\* A u64 is an integer; a negative v stands for 2^64 + v, the value a
\* subtraction that wrapped around leaves.
\* a > b as u64.
Above(a, b) == IF (a < 0) = (b < 0) THEN a > b ELSE a < 0

\* u64::is_power_of_two.
IsPowerOfTwo(align) == \E k \in 0..30 : align = 2 ^ k

\* v & !(align - 1) for a power of two align.
MaskDown(v, align) == v - (v % align)

\* GuestAddress::offset_from: self.0 - other.0.
OffsetFrom(max_guest_addr, min_guest_addr) == max_guest_addr - min_guest_addr

\* Line 850.
MaxSize(min_guest_addr, max_guest_addr, align) ==
    MaskDown(OffsetFrom(max_guest_addr, min_guest_addr), align)

\* Line 863: (max_guest_addr.offset() - size) & !(align - 1).
ImageAddressUnaligned(max_guest_addr, size, align) == max_guest_addr - size
ImageAddress(max_guest_addr, size, align) == MaskDown(max_guest_addr - size, align)

\* The subtractions of lines 850 and 863 that overflow: a panic in a build with
\* overflow checks, a wrap without.
OffsetOverflows(l) == l.min_guest_addr > l.max_guest_addr
AddressOverflows(l) == l.size > l.max_guest_addr

ImageLoad(min_guest_addr, max_guest_addr, align, size) ==
    [min_guest_addr |-> min_guest_addr, max_guest_addr |-> max_guest_addr,
     align |-> align, size |-> size, guest_addr |-> None, result |-> "running"]

\* load_image_high, lines 836-873. `fail` names the call that fails: one of the
\* two seeks or read_to_memory.
LoadImageHigh ==
    /\ image_load # <<>>
    /\ image_load.result = "running"
    /\ \E fail \in {"none", "seek_end", "seek_start", "read_to_memory"},
          overflow_checks \in BOOLEAN :
         LET l == image_load
             max_size == MaxSize(l.min_guest_addr, l.max_guest_addr, l.align)
             guest_addr == ImageAddress(l.max_guest_addr, l.size, l.align)
             returns(r) == image_load' = [l EXCEPT !.result = r]
         IN IF ~IsPowerOfTwo(l.align) THEN returns("BadAlignment")
            ELSE IF OffsetOverflows(l) /\ overflow_checks THEN returns("panicked")
            ELSE IF fail = "seek_end" THEN returns("Seek")
            ELSE IF Above(l.size, max_size) THEN returns("ImageSizeTooLarge")
            ELSE IF fail = "seek_start" THEN returns("Seek")
            ELSE IF AddressOverflows(l) /\ overflow_checks THEN returns("panicked")
            ELSE IF fail = "read_to_memory" THEN returns("ReadToMemory")
            ELSE image_load' = [l EXCEPT !.result = "Ok", !.guest_addr = guest_addr]
    /\ UNCHANGED <<assignVars, rootVars, cpuidVars, inputVars>>

\* The alignments passed: powers of two, and 0 and 3 which are not.
Aligns == {0, 1, 2, 3, 4, 8}

InitImage ==
    /\ AssignIdle
    /\ RootIdle
    /\ CpuidIdle
    /\ InputIdle
    /\ \E min_guest_addr, max_guest_addr, size \in 0..MaxAddr, align \in Aligns :
         image_load = ImageLoad(min_guest_addr, max_guest_addr, align, size)

NextImage == LoadImageHigh

SpecImage == InitImage /\ [][NextImage]_vars

\* =================================================================
\* The virtio-input device and its worker (devices/src/virtio/input/mod.rs)
\* =================================================================
\* Descriptors the guest offers on the event queue and on the status queue,
\* events the source produces, activate calls made on the device.
MaxDescs == 2
MaxStatus == 1
MaxEvents == 2
MaxActivates == 2

\* size_of::<virtio_input_event>(): u16 + u16 + u32.
EVENT_SIZE == 8

\* A descriptor chain: its index, the bytes the Writer (Reader) finds in it, and
\* what is wrong with it: nothing, a chain Writer::new / Reader::new rejects, or
\* memory that write_obj / read_obj cannot reach.
Descriptor(index, capacity, fault) ==
    [index |-> index, capacity |-> capacity, fault |-> fault]

\* A Queue: the available ring as the guest filled it and the position of the
\* next descriptor pop takes.
Queue == [ring |-> <<>>, next |-> 1]

\* Queue::pop: None when the ring holds nothing new, else the next descriptor
\* of the ring.
HasAvail(q) == q.next <= Len(q.ring)
NextAvail(q) == q.next
Popped(q) == q.ring[NextAvail(q)]
Advance(q) == [q EXCEPT !.next = @ + 1]

\* writer.available_bytes() >= virtio_input_event::EVENT_SIZE (line 382), and
\* the same test of the reader (line 438).
HasRoomAny(available_bytes) == available_bytes > 0
HasRoom(available_bytes) == available_bytes >= EVENT_SIZE

RECURSIVE FillEventVirtqueue(_, _, _)
\* fill_event_virtqueue, lines 382-390: events are popped from the source and
\* written while a whole event fits; the events left and the events written.
FillEventVirtqueue(pending, available_bytes, written) ==
    IF HasRoom(available_bytes) /\ pending # <<>>
    THEN FillEventVirtqueue(Tail(pending), available_bytes - EVENT_SIZE,
                            Append(written, Head(pending)))
    ELSE [pending |-> pending, written |-> written]

\* Lines 418-422: what add_used is called with, avail_desc_index and
\* bytes_written, together with what the descriptor and the source held.
EventUsedFirst(d, fill, available) ==
    [index |-> 1, len |-> EVENT_SIZE * Len(fill.written), events |-> fill.written,
     capacity |-> d.capacity, available |-> available]
EventUsed(d, fill, available) ==
    [index |-> d.index, len |-> EVENT_SIZE * Len(fill.written), events |-> fill.written,
     capacity |-> d.capacity, available |-> available]

RECURSIVE SendEvents(_)
\* send_events, lines 394-429, on the state st of a wake-up.
SendEvents(st) ==
    IF st.src.pending = <<>> \/ ~HasAvail(st.eq) THEN st
    ELSE LET d == Popped(st.eq)
             took == [st EXCEPT !.eq = Advance(@),
                                !.popped.event = Append(@, d.index)]
             fill == FillEventVirtqueue(st.src.pending, d.capacity, <<>>)
         IN IF d.fault = "descriptor" THEN took
            ELSE IF d.fault = "memory" /\ HasRoom(d.capacity)
            THEN [took EXCEPT !.src.pending = Tail(@)]
            ELSE SendEvents([took EXCEPT
                    !.src.pending = fill.pending,
                    !.used.event = Append(@, EventUsed(d, fill, Len(st.src.pending))),
                    !.marked = @ + 1,
                    !.needs_interrupt = TRUE])

RECURSIVE ReadEventVirtqueue(_, _)
\* read_event_virtqueue, lines 437-443: the bytes read, whole events only.
ReadEventVirtqueue(available_bytes, bytes_read) ==
    IF HasRoom(available_bytes)
    THEN ReadEventVirtqueue(available_bytes - EVENT_SIZE, bytes_read + EVENT_SIZE)
    ELSE bytes_read

RECURSIVE ProcessStatusQueue(_)
\* process_status_queue, lines 446-469.
ProcessStatusQueue(st) ==
    IF ~HasAvail(st.sq) THEN st
    ELSE LET d == Popped(st.sq)
             took == [st EXCEPT !.sq = Advance(@),
                                !.popped.status = Append(@, d.index)]
         IN IF d.fault = "descriptor" \/ (d.fault = "memory" /\ HasRoom(d.capacity))
            THEN took
            ELSE ProcessStatusQueue([took EXCEPT
                    !.used.status = Append(@, [index |-> d.index,
                                               len |-> ReadEventVirtqueue(d.capacity, 0)]),
                    !.marked = @ + 1,
                    !.needs_interrupt = TRUE])

\* event_source.receive_events(): the events readable on the source become
\* pending events.
ReceiveEvents(src) ==
    [src EXCEPT !.pending = @ \o [k \in 1..src.unread |-> src.next + k - 1],
                !.next = @ + src.unread,
                !.unread = 0]

\* One arm of the match on poll_event.token(), lines 515-544. `fail` names the
\* call that fails in this wake-up, if any.
HandleToken(st, token, fail) ==
    CASE token = "EventQAvailable" ->
            IF fail = token THEN [st EXCEPT !.broke = TRUE]
            ELSE SendEvents([st EXCEPT !.bells = @ \ {token}])
      [] token = "StatusQAvailable" ->
            IF fail = token THEN [st EXCEPT !.broke = TRUE]
            ELSE ProcessStatusQueue([st EXCEPT !.bells = @ \ {token}])
      [] token = "InputEventsAvailable" ->
            IF fail = token THEN st
            ELSE SendEvents([st EXCEPT !.src = ReceiveEvents(@)])
      [] token = "InterruptResample" -> [st EXCEPT !.bells = @ \ {token}]
      [] token = "Kill" -> [st EXCEPT !.kills[worker.kill_evt] = 0, !.broke = TRUE]

RECURSIVE HandleTokens(_, _, _)
\* for poll_event in poll_events.iter_readable(), left by break 'poll.
HandleTokens(st, tokens, fail) ==
    IF tokens = <<>> \/ st.broke THEN st
    ELSE HandleTokens(HandleToken(st, Head(tokens), fail), Tail(tokens), fail)

\* Lines 546-548: the interrupt is signalled after the for loop; break 'poll
\* leaves the outer loop before it.
Signals(st) == IF ~st.broke /\ st.needs_interrupt THEN 1 ELSE 0

\* What poll_ctx.wait() reports readable.
ReadyTokens ==
    doorbells
    \cup (IF event_source.unread > 0 THEN {"InputEventsAvailable"} ELSE {})
    \cup (IF kill_evts[worker.kill_evt] > 0 THEN {"Kill"} ELSE {})

\* The orders in which the readable tokens can be iterated.
RECURSIVE Orders(_)
Orders(ready) ==
    IF ready = {} THEN {<<>>}
    ELSE UNION {{<<token>> \o rest : rest \in Orders(ready \ {token})} : token \in ready}

Running == worker # <<>> /\ worker.pc = "poll"

cpuFrame == <<assignVars, rootVars, cpuidVars, imageVars, config, config_io, bitmap_call>>

\* Input::activate, lines 607-667.
Activate ==
    /\ dpc = "alive"
    /\ input.activate_calls < MaxActivates
    /\ \E queues_len \in {1, 2}, fail \in {"none", "EventFd::new", "spawn"} :
         LET called == [input EXCEPT !.activate_calls = @ + 1]
             kill_evt == Len(kill_evts) + 1
         IN IF queues_len # 2 \/ fail = "EventFd::new"
            THEN /\ input' = called
                 /\ UNCHANGED <<kill_evts, worker>>
            ELSE /\ kill_evts' = Append(kill_evts, 0)
                 /\ IF ~input.source
                    THEN /\ input' = [called EXCEPT !.kill_evt = kill_evt]
                         /\ UNCHANGED worker
                    ELSE IF fail = "spawn"
                    THEN /\ input' = [called EXCEPT !.kill_evt = kill_evt, !.source = FALSE]
                         /\ UNCHANGED worker
                    ELSE /\ input' = [called EXCEPT !.kill_evt = kill_evt,
                                                    !.source = FALSE,
                                                    !.worker_thread = TRUE]
                         /\ worker' = [pc |-> "start", kill_evt |-> kill_evt,
                                       init |-> 0, finalize |-> 0]
    /\ UNCHANGED <<cpuFrame, event_queue, status_queue, event_source, doorbells, popped,
                   used, wake, dpc>>

\* Worker::run, lines 477-502: event_source.init() and the PollContext.
WorkerStart ==
    /\ worker # <<>>
    /\ worker.pc = "start"
    /\ \E fail \in {"none", "init", "PollContext"} :
         worker' = IF fail = "init" THEN [worker EXCEPT !.pc = "exited"]
                   ELSE IF fail = "PollContext"
                   THEN [worker EXCEPT !.pc = "exited", !.init = 1]
                   ELSE [worker EXCEPT !.pc = "poll", !.init = 1]
    /\ UNCHANGED <<cpuFrame, input, kill_evts, event_queue, status_queue, event_source,
                   doorbells, popped, used, wake, dpc>>

\* Worker::run, lines 504-549: one wake-up of the poll loop; after break 'poll
\* the source is finalized (551-554) and the thread ends.
WorkerWake ==
    /\ Running
    /\ ReadyTokens # {}
    /\ \E iter \in Orders(ReadyTokens),
          fail \in {"none", "EventQAvailable", "StatusQAvailable", "InputEventsAvailable"} :
         LET st == HandleTokens([eq |-> event_queue, sq |-> status_queue,
                                 src |-> event_source, bells |-> doorbells,
                                 kills |-> kill_evts, popped |-> popped, used |-> used,
                                 marked |-> 0, needs_interrupt |-> FALSE, broke |-> FALSE],
                                iter, fail)
         IN /\ fail # "none" => fail \in ReadyTokens
            /\ event_queue' = st.eq
            /\ status_queue' = st.sq
            /\ event_source' = st.src
            /\ doorbells' = st.bells
            /\ kill_evts' = st.kills
            /\ popped' = st.popped
            /\ used' = st.used
            /\ wake' = [used |-> st.marked, signals |-> Signals(st), broke |-> st.broke]
            /\ worker' = IF st.broke
                         THEN [worker EXCEPT !.pc = "exited", !.finalize = @ + 1]
                         ELSE worker
    /\ UNCHANGED <<cpuFrame, input, dpc>>

\* Lines 505-511: poll_ctx.wait() fails.
WorkerPollError ==
    /\ Running
    /\ worker' = [worker EXCEPT !.pc = "exited", !.finalize = @ + 1]
    /\ UNCHANGED <<cpuFrame, input, kill_evts, event_queue, status_queue, event_source,
                   doorbells, popped, used, wake, dpc>>

\* The descriptor tables of the guest: what the chain at each index is.
EventDescriptors(index) ==
    CASE index = 1 -> Descriptor(index, 20, "none")
      [] index = 2 -> Descriptor(index, 7, "none")
      [] index = 3 -> Descriptor(index, 8, "descriptor")
      [] OTHER -> Descriptor(index, 8, "memory")
StatusDescriptors(index) ==
    CASE index = 1 -> Descriptor(index, 8, "none")
      [] index = 2 -> Descriptor(index, 8, "descriptor")
      [] OTHER -> Descriptor(index, 8, "memory")

Indices(ring) == {ring[k].index : k \in 1..Len(ring)}

\* The guest makes a descriptor chain available on the event queue and rings
\* the doorbell; the queues belong to the worker of the activated device.
GuestOffersEventDescriptor ==
    /\ Running
    /\ Len(event_queue.ring) < MaxDescs
    /\ \E index \in (1..MaxDescs) \ Indices(event_queue.ring) :
         event_queue' = [event_queue EXCEPT !.ring = Append(@, EventDescriptors(index))]
    /\ doorbells' = doorbells \cup {"EventQAvailable"}
    /\ UNCHANGED <<cpuFrame, input, kill_evts, worker, status_queue, event_source, popped,
                   used, wake, dpc>>

GuestOffersStatusDescriptor ==
    /\ Running
    /\ Len(status_queue.ring) < MaxStatus
    /\ \E index \in (1..MaxStatus) \ Indices(status_queue.ring) :
         status_queue' = [status_queue EXCEPT !.ring = Append(@, StatusDescriptors(index))]
    /\ doorbells' = doorbells \cup {"StatusQAvailable"}
    /\ UNCHANGED <<cpuFrame, input, kill_evts, worker, event_queue, event_source, popped,
                   used, wake, dpc>>

\* The input device produces an event: the source becomes readable.
SourceEvent ==
    /\ Running
    /\ event_source.next + event_source.unread <= MaxEvents
    /\ event_source' = [event_source EXCEPT !.unread = @ + 1]
    /\ UNCHANGED <<cpuFrame, input, kill_evts, worker, event_queue, status_queue, doorbells,
                   popped, used, wake, dpc>>

\* The resample event of the interrupt is triggered: the guest acknowledges an
\* interrupt the worker signalled.
ResampleRequest ==
    /\ Running
    /\ wake # <<>>
    /\ wake.signals > 0
    /\ "InterruptResample" \notin doorbells
    /\ doorbells' = doorbells \cup {"InterruptResample"}
    /\ UNCHANGED <<cpuFrame, input, kill_evts, worker, event_queue, status_queue,
                   event_source, popped, used, wake, dpc>>

\* Drop for Input, lines 569-572: the kill event is taken and written.
DropKill ==
    /\ dpc = "alive"
    /\ IF input.kill_evt # None
       THEN /\ kill_evts' = [kill_evts EXCEPT ![input.kill_evt] = 1]
            /\ input' = [input EXCEPT !.kill_evt = None]
       ELSE UNCHANGED <<kill_evts, input>>
    /\ dpc' = "join"
    /\ UNCHANGED <<cpuFrame, worker, event_queue, status_queue, event_source, doorbells,
                   popped, used, wake>>

\* Lines 574-576: the join returns once the thread has ended; without a thread
\* handle there is nothing to join.
DropJoin ==
    /\ dpc = "join"
    /\ input.worker_thread => worker.pc = "exited"
    /\ input' = [input EXCEPT !.worker_thread = FALSE]
    /\ dpc' = "dropped"
    /\ UNCHANGED <<cpuFrame, kill_evts, worker, event_queue, status_queue, event_source,
                   doorbells, popped, used, wake>>

\* new_evdev / new_*: a device with a source, no kill event and no thread; the
\* queues are empty.
InitInput ==
    /\ AssignIdle
    /\ RootIdle
    /\ CpuidIdle
    /\ ImageIdle
    /\ ConfigIdle
    /\ input = [kill_evt |-> None, worker_thread |-> FALSE, source |-> TRUE,
                activate_calls |-> 0]
    /\ kill_evts = <<>>
    /\ worker = <<>>
    /\ event_queue = Queue
    /\ status_queue = Queue
    /\ event_source = [pending |-> <<>>, unread |-> 0, next |-> 1]
    /\ doorbells = {}
    /\ popped = [event |-> <<>>, status |-> <<>>]
    /\ used = [event |-> <<>>, status |-> <<>>]
    /\ wake = <<>>
    /\ dpc = "alive"

NextInput ==
    \/ Activate
    \/ WorkerStart
    \/ WorkerWake
    \/ WorkerPollError
    \/ GuestOffersEventDescriptor
    \/ GuestOffersStatusDescriptor
    \/ SourceEvent
    \/ ResampleRequest
    \/ DropKill
    \/ DropJoin

\* The worker is a thread of its own and the destructor runs on the thread
\* that drops the device: both are scheduled. A failure of poll_ctx.wait() is
\* not something that has to happen.
SpecInput ==
    /\ InitInput
    /\ [][NextInput]_vars
    /\ WF_vars(WorkerStart)
    /\ WF_vars(WorkerWake)
    /\ WF_vars(DropJoin)

\* The worker loop on its own: the device has been activated once and its
\* worker has reached the poll loop.
InitWorker ==
    /\ AssignIdle
    /\ RootIdle
    /\ CpuidIdle
    /\ ImageIdle
    /\ ConfigIdle
    /\ input = [kill_evt |-> 1, worker_thread |-> TRUE, source |-> FALSE,
                activate_calls |-> 1]
    /\ kill_evts = <<0>>
    /\ worker = [pc |-> "poll", kill_evt |-> 1, init |-> 1, finalize |-> 0]
    /\ event_queue = Queue
    /\ status_queue = Queue
    /\ event_source = [pending |-> <<>>, unread |-> 0, next |-> 1]
    /\ doorbells = {}
    /\ popped = [event |-> <<>>, status |-> <<>>]
    /\ used = [event |-> <<>>, status |-> <<>>]
    /\ wake = <<>>
    /\ dpc = "alive"

NextWorker ==
    \/ WorkerWake
    \/ WorkerPollError
    \/ GuestOffersEventDescriptor
    \/ GuestOffersStatusDescriptor
    \/ SourceEvent
    \/ ResampleRequest
    \/ DropKill
    \/ DropJoin

SpecWorker == InitWorker /\ [][NextWorker]_vars

\* The descriptor chains the guest made available before the worker first
\* polls: none, or one chain that Writer::new / Reader::new rejects, or one
\* whose memory write_obj / read_obj cannot reach.
OfferedBefore(table(_), faulty) == {<<>>} \cup {<<table(index)>> : index \in faulty}

\* The worker loop of a guest that puts faulty descriptor chains on its queues.
InitFaulty ==
    /\ AssignIdle
    /\ RootIdle
    /\ CpuidIdle
    /\ ImageIdle
    /\ ConfigIdle
    /\ input = [kill_evt |-> 1, worker_thread |-> TRUE, source |-> FALSE,
                activate_calls |-> 1]
    /\ kill_evts = <<0>>
    /\ worker = [pc |-> "poll", kill_evt |-> 1, init |-> 1, finalize |-> 0]
    /\ \E ering \in OfferedBefore(EventDescriptors, {MaxDescs + 1, MaxDescs + 2}),
          sring \in OfferedBefore(StatusDescriptors, {MaxStatus + 1, MaxStatus + 2}) :
         /\ event_queue = [Queue EXCEPT !.ring = ering]
         /\ status_queue = [Queue EXCEPT !.ring = sring]
         /\ doorbells = (IF ering # <<>> THEN {"EventQAvailable"} ELSE {})
                        \cup (IF sring # <<>> THEN {"StatusQAvailable"} ELSE {})
    /\ event_source = [pending |-> <<>>, unread |-> 0, next |-> 1]
    /\ popped = [event |-> <<>>, status |-> <<>>]
    /\ used = [event |-> <<>>, status |-> <<>>]
    /\ wake = <<>>
    /\ dpc = "alive"

SpecFaulty == InitFaulty /\ [][NextWorker]_vars

\* =================================================================
\* The config space of the virtio-input device (virtio/input/mod.rs 196-340)
\* =================================================================
\* Longest slice of bit indices handed to from_bits.
MaxBits == 2

\* [u8; 128] of virtio_input_bitmap and of the payload of virtio_input_config.
BITMAP_LEN == 128

\* The state of the worker and of the device, which the config space leaves alone.
workerVars == <<input, kill_evts, worker, event_queue, status_queue, event_source,
                doorbells, popped, used, wake, dpc>>

\* n zero bytes.
Zeroes(n) == [k \in 1..n |-> 0]

\* byte | bit_byte for a bit_byte with one bit set.
OrByte(byte, bit_byte) == IF (byte \div bit_byte) % 2 = 1 THEN byte ELSE byte + bit_byte

\* 1u8 << (idx % 8).
BitByteLowest(idx) == 1
BitByte(idx) == 2 ^ (idx % 8)

RECURSIVE FromBitsLoop(_, _)
\* from_bits, lines 215-227: the loop over set_indices on the bitmap ret.
FromBitsLoop(set_indices, ret) ==
    IF set_indices = <<>> THEN ret
    ELSE LET idx == Head(set_indices)
             byte_pos == idx \div 8
         IN FromBitsLoop(Tail(set_indices),
                         IF byte_pos < Len(ret)
                         THEN [ret EXCEPT ![byte_pos + 1] = OrByte(@, BitByte(idx))]
                         ELSE ret)

\* virtio_input_bitmap::from_bits.
FromBits(set_indices) == FromBitsLoop(set_indices, Zeroes(BITMAP_LEN))

\* virtio_input_bitmap::min_size: rposition of a non-zero byte, plus one, as u8.
MinSizeFirst(bitmap) ==
    LET nz == {i \in 1..Len(bitmap) : bitmap[i] # 0}
    IN IF nz = {} THEN 0 ELSE Least(nz) % 256
MinSize(bitmap) ==
    LET nz == {i \in 1..Len(bitmap) : bitmap[i] # 0}
    IN IF nz = {} THEN 0 ELSE (CHOOSE i \in nz : \A j \in nz : j <= i) % 256

\* Bit indices at the edges of a byte, of the bitmap and of u16.
BitIndices == {0, 7, 8, 9, 1016, 1023, 1024, 1025, 65535}

\* from_bits is called on a slice of indices and min_size on its result.
FromBitsCall ==
    /\ bitmap_call # <<>>
    /\ bitmap_call.pc = "from_bits"
    /\ LET ret == FromBits(bitmap_call.set_indices)
       IN bitmap_call' = [bitmap_call EXCEPT !.bitmap = ret, !.min_size = MinSize(ret),
                                             !.pc = "done"]
    /\ UNCHANGED <<assignVars, rootVars, cpuidVars, imageVars, workerVars, config, config_io>>

InitBitmap ==
    /\ AssignIdle
    /\ RootIdle
    /\ CpuidIdle
    /\ ImageIdle
    /\ input = <<>> /\ kill_evts = <<>> /\ worker = <<>> /\ event_queue = <<>>
    /\ status_queue = <<>> /\ event_source = <<>> /\ doorbells = {} /\ popped = <<>>
    /\ used = <<>> /\ wake = <<>> /\ dpc = "idle"
    /\ config = <<>>
    /\ config_io = <<>>
    /\ \E set_indices \in SeqsUpTo(BitIndices, MaxBits) :
         bitmap_call = [set_indices |-> set_indices, bitmap |-> <<>>, min_size |-> 0,
                        pc |-> "from_bits"]

NextBitmap == FromBitsCall

SpecBitmap == InitBitmap /\ [][NextBitmap]_vars

\* -----------------------------------------------------------------
\* VirtioInputConfig: select, subsel and the captured capabilities
\* -----------------------------------------------------------------
\* The longest data slice of one config read or write.
MaxData == 2

\* The select values of the virtio-input config space.
VIRTIO_INPUT_CFG_ID_NAME == 1
VIRTIO_INPUT_CFG_ID_SERIAL == 2
VIRTIO_INPUT_CFG_ID_DEVIDS == 3
VIRTIO_INPUT_CFG_PROP_BITS == 17
VIRTIO_INPUT_CFG_EV_BITS == 18
VIRTIO_INPUT_CFG_ABS_INFO == 32

\* struct virtio_input_config: select, subsel, size, reserved[5], payload[128].
RESERVED_LEN == 5
CONFIG_LEN == 136

\* Le16 / Le32 as_slice: the little-endian bytes of a value.
Le16(v) == <<v % 256, (v \div 256) % 256>>

Le32(v) == <<v % 256, (v \div 256) % 256, (v \div 65536) % 256, (v \div 16777216) % 256>>

\* virtio_input_device_ids::as_slice and virtio_input_absinfo::as_slice.
DeviceIdsSlice(ids) == Le16(ids.bustype) \o Le16(ids.vendor) \o Le16(ids.product) \o Le16(ids.version)

AbsinfoSlice(absinfo) == Le32(absinfo.min) \o Le32(absinfo.max) \o Le32(absinfo.fuzz) \o Le32(absinfo.flat)

\* virtio_input_config::new, lines 157-165.
NewConfig == [select |-> 0, subsel |-> 0, size |-> 0, reserved |-> Zeroes(RESERVED_LEN), payload |-> Zeroes(BITMAP_LEN)]

\* set_payload_slice, lines 167-180: write copies as much of the slice as
\* the payload holds over its head, size is the number of bytes written.
SetPayloadSlice(cfg, slice) == LET bytes_written == IF Len(slice) <= BITMAP_LEN THEN Len(slice) ELSE BITMAP_LEN IN [cfg EXCEPT !.size = bytes_written % 256, !.payload = [k \in 1..BITMAP_LEN |-> IF k <= bytes_written THEN slice[k] ELSE cfg.payload[k]]]

\* set_payload_bitmap, lines 183-186.
SetPayloadBitmap(cfg, bitmap) == [cfg EXCEPT !.size = MinSize(bitmap), !.payload = bitmap]

\* The keys of a BTreeMap<u16, _>, in ascending order.
RECURSIVE SortedKeys(_)
SortedKeys(keys) == IF keys = {} THEN <<>> ELSE LET least == CHOOSE k \in keys : \A other \in keys : k <= other IN <<least>> \o SortedKeys(keys \ {least})

\* build_config_memory, lines 283-322: the match on self.select.
BuildConfigMemory(self) ==
    LET cfg == [NewConfig EXCEPT !.select = self.select, !.subsel = self.subsel]
    IN  CASE self.select = VIRTIO_INPUT_CFG_ID_NAME -> SetPayloadSlice(cfg, self.name)
          [] self.select = VIRTIO_INPUT_CFG_ID_SERIAL -> SetPayloadSlice(cfg, self.serial_name)
          [] self.select = VIRTIO_INPUT_CFG_PROP_BITS -> SetPayloadBitmap(cfg, self.properties)
          [] self.select = VIRTIO_INPUT_CFG_EV_BITS ->
               IF self.subsel = 0
                 THEN SetPayloadBitmap(cfg, FromBits(SortedKeys(DOMAIN self.supported_events)))
                 ELSE IF self.subsel \in DOMAIN self.supported_events
                        THEN SetPayloadBitmap(cfg, self.supported_events[self.subsel])
                        ELSE cfg
          [] self.select = VIRTIO_INPUT_CFG_ABS_INFO ->
               IF self.subsel \in DOMAIN self.axis_info
                 THEN SetPayloadSlice(cfg, AbsinfoSlice(self.axis_info[self.subsel]))
                 ELSE cfg
          [] self.select = VIRTIO_INPUT_CFG_ID_DEVIDS -> SetPayloadSlice(cfg, DeviceIdsSlice(self.device_ids))
          [] OTHER -> cfg

\* virtio_input_config::as_slice: the 136 bytes of the #[repr(C)] struct.
AsSlice(cfg) == <<cfg.select, cfg.subsel, cfg.size>> \o cfg.reserved \o cfg.payload

\* copy_config: copies src[src_offset..] over dst[dst_offset..], as many
\* bytes as both hold; an offset past the end of its slice copies nothing.
CopyConfig(dst, dst_offset, src, src_offset) ==
    IF dst_offset > Len(dst) \/ src_offset > Len(src)
      THEN dst
      ELSE LET dst_len == Len(dst) - dst_offset
               src_len == Len(src) - src_offset
               len == IF dst_len <= src_len THEN dst_len ELSE src_len
           IN  [k \in 1..Len(dst) |-> IF k > dst_offset /\ k <= dst_offset + len THEN src[src_offset + k - dst_offset] ELSE dst[k]]

\* VirtioInputConfig::read, lines 324-331: the data slice after the call.
ConfigRead(self, offset, data) == CopyConfig(data, 0, AsSlice(BuildConfigMemory(self)), offset)

\* A write that stores the written bytes as the device name.
ConfigWriteName(self, offset, data) == [self EXCEPT !.name = data]

\* VirtioInputConfig::write, lines 333-338: self after the call.
ConfigWrite(self, offset, data) == LET config_mem == CopyConfig(AsSlice(BuildConfigMemory(self)), offset, data, 0) IN [self EXCEPT !.select = config_mem[1], !.subsel = config_mem[2]]

\* The capabilities captured from the event device at construction.
Capabilities ==
    [device_ids |-> [bustype |-> 3, vendor |-> 4660, product |-> 1, version |-> 258],
     name |-> <<110, 49>>,
     serial_name |-> <<115>>,
     properties |-> FromBits(<<1>>),
     supported_events |-> (1 :> FromBits(<<9, 30>>)) @@ (3 :> FromBits(<<0, 1>>)),
     axis_info |-> (0 :> [min |-> 0, max |-> 1023, fuzz |-> 0, flat |-> 4]) @@ (1 :> [min |-> 1, max |-> 70000, fuzz |-> 2, flat |-> 0])]

\* The bytes a guest writes and the offsets it reads and writes at.
ConfigBytes == {0, 1, 2, 3, VIRTIO_INPUT_CFG_PROP_BITS, VIRTIO_INPUT_CFG_EV_BITS, VIRTIO_INPUT_CFG_ABS_INFO, 255}

ConfigOffsets == {0, 1, 2, 3, 8, 9, 135, 136, 137}

\* The filler of a read's data slice before the call.
Untouched == 170

\* VirtioDevice::write_config, lines 603-605.
WriteConfig ==
    /\ config # <<>>
    /\ config_io = <<>>
    /\ \E offset \in ConfigOffsets, data \in SeqsUpTo(ConfigBytes, MaxData) :
         /\ config' = ConfigWrite(config, offset, data)
         /\ config_io' = [op |-> "write", offset |-> offset, data |-> data, before |-> config, result |-> data]
    /\ UNCHANGED <<assignVars, rootVars, cpuidVars, imageVars, workerVars, bitmap_call>>

\* VirtioDevice::read_config, lines 599-601.
ReadConfig ==
    /\ config # <<>>
    /\ config_io = <<>>
    /\ \E offset \in ConfigOffsets, len \in 0..MaxData :
         LET data == [k \in 1..len |-> Untouched]
         IN  config_io' = [op |-> "read", offset |-> offset, data |-> data, before |-> config, result |-> ConfigRead(config, offset, data)]
    /\ UNCHANGED <<assignVars, rootVars, cpuidVars, imageVars, workerVars, bitmap_call, config>>

\* read_config or write_config returns: the guest's access completes, and
\* only then can it start another one.
ConfigAccessDone ==
    /\ config_io # <<>>
    /\ config_io' = <<>>
    /\ UNCHANGED <<assignVars, rootVars, cpuidVars, imageVars, workerVars, bitmap_call, config>>

\* VirtioInputConfig::new, lines 252-271: select and subsel start at 0.
InitConfig ==
    /\ AssignIdle
    /\ RootIdle
    /\ CpuidIdle
    /\ ImageIdle
    /\ input = <<>> /\ kill_evts = <<>> /\ worker = <<>> /\ event_queue = <<>>
    /\ status_queue = <<>> /\ event_source = <<>> /\ doorbells = {} /\ popped = <<>>
    /\ used = <<>> /\ wake = <<>> /\ dpc = "idle"
    /\ bitmap_call = <<>>
    /\ config = [select |-> 0, subsel |-> 0] @@ Capabilities
    /\ config_io = <<>>

NextConfig == WriteConfig \/ ReadConfig \/ ConfigAccessDone

SpecConfig == InitConfig /\ [][NextConfig]_vars

\* =================================================================
\* Properties of adjust_cpuid and filter_cpuid
\* =================================================================
\* The number in bits hi..lo of a register.
Field(reg, hi, lo) == Value({i - lo : i \in reg \cap (lo..hi)})

\* adjust_cpuid has returned for an entry of one of the leaves.
Adjusted(leaves) == cpc = "adjusted" /\ original.function \in leaves

\* C12 as stated: after filter_cpuid every entry with function 1 has ECX bit 31
\* set.
C12_HypervisorBitEveryEntry ==
    cpc = "filtered" =>
        \A k \in 1..Len(cpu_id_entries) :
            cpu_id_entries[k].function = 1 => 31 \in cpu_id_entries[k].cpuid.ecx

\* C12 as amended: after filter_cpuid every entry with function 1 and index 0
\* has ECX bit 31 set; an entry with function 1 and another index has the ECX
\* bit 31 it was supplied with.
C12_HypervisorBitIndex0 ==
    cpc = "filtered" =>
        \A k \in 1..Len(original) :
            cpu_id_entries[k].function = 1 =>
                IF cpu_id_entries[k].index = 0
                THEN 31 \in cpu_id_entries[k].cpuid.ecx
                ELSE 31 \in cpu_id_entries[k].cpuid.ecx <=> 31 \in original[k].cpuid.ecx

\* A table of two leaf-1 entries supplied without the bit, index 0 and index 1.
C12_Witness ==
    /\ cpc = "filtered" /\ Len(original) = 2
    /\ original[1].function = 1 /\ original[1].index = 0
    /\ 31 \notin original[1].cpuid.ecx /\ 31 \in cpu_id_entries[1].cpuid.ecx
    /\ original[2].function = 1 /\ original[2].index = 1
    /\ 31 \notin cpu_id_entries[2].cpuid.ecx

\* C13: with host_cpu_topology = false and cpu_count > 1, leaf 1 has EDX bit 28
\* set and EBX bits 23:16 equal to cpu_count.
C13_HttAndCpuCount ==
    (Adjusted({1}) /\ ~ctx.host_cpu_topology /\ ctx.cpu_count > 1) =>
        /\ 28 \in cpu_id_entry.cpuid.edx
        /\ Field(cpu_id_entry.cpuid.ebx, 23, 16) = ctx.cpu_count

\* C14: with host_cpu_topology = false, leaf 1 has EBX bits 31:24 equal to
\* vcpu_id and EBX bits 15:8 equal to 8, whatever EBX was supplied and whatever
\* cpu_count is; for cpu_count 2 and vcpu_id 1 EBX is 0x01020800.
C14_ApicIdAndClflush ==
    (Adjusted({1}) /\ ~ctx.host_cpu_topology) =>
        /\ Field(cpu_id_entry.cpuid.ebx, 31, 24) = ctx.vcpu_id
        /\ Field(cpu_id_entry.cpuid.ebx, 15, 8) = 8
        /\ (ctx.cpu_count = 2 /\ ctx.vcpu_id = 1) => cpu_id_entry.cpuid.ebx = Bits(16910336)

\* C15: after adjust_cpuid on leaf 1, ECX bit 21 equals ctx.x2apic and ECX bit
\* 24 equals ctx.tsc_deadline_timer, whatever the supplied entry held.
C15_ApicBitsFollowContext ==
    Adjusted({1}) =>
        /\ 21 \in cpu_id_entry.cpuid.ecx <=> ctx.x2apic
        /\ 24 \in cpu_id_entry.cpuid.ecx <=> ctx.tsc_deadline_timer

\* cpu_cores as the specification defines it.
CoresPerPackage ==
    IF ctx.no_smt THEN ctx.cpu_count
    ELSE IF ctx.cpu_count % 2 = 0 THEN ctx.cpu_count \div 2
    ELSE 1

\* C16: with host_cpu_topology = false, leaf 4 has EAX bits 25:0, EBX, ECX and
\* EDX of the host's cpuid_count(4, index), and EAX bits 31:26 equal to 0 when
\* cpu_count <= 1 and to cpu_cores - 1 otherwise.
C16_CoresPerPackage ==
    (Adjusted({4}) /\ ~ctx.host_cpu_topology) =>
        LET probe == host.cpuid_count
        IN /\ cpu_id_entry.cpuid.eax \cap (0..25) = probe.eax \cap (0..25)
           /\ cpu_id_entry.cpuid.ebx = probe.ebx
           /\ cpu_id_entry.cpuid.ecx = probe.ecx
           /\ cpu_id_entry.cpuid.edx = probe.edx
           /\ Field(cpu_id_entry.cpuid.eax, 31, 26)
                 = IF ctx.cpu_count <= 1 THEN 0 ELSE CoresPerPackage - 1

\* C17: with host_cpu_topology = true, adjust_cpuid on leaf 4 replaces the four
\* registers by the result of the cpuid_count probe, for every cpu_count and
\* no_smt, whatever the entry held; function, index and flags stay.
C17_Leaf4HostTopology ==
    (Adjusted({4}) /\ ctx.host_cpu_topology) =>
        /\ cpu_id_entry.cpuid = host.cpuid_count
        /\ cpu_id_entry = [original EXCEPT !.cpuid = host.cpuid_count]

\* The call of the test cpuid_copies_register: cpu_count 0, EAX 31 becomes 27.
C17_Witness ==
    /\ Adjusted({4}) /\ ctx.host_cpu_topology /\ ctx.cpu_count = 0
    /\ original.cpuid.eax = Bits(31) /\ original.cpuid.edx = Bits(26)
    /\ cpu_id_entry.cpuid = CpuidResult(Bits(27), Bits(18), Bits(28), Bits(18))

\* The least k with 2^k >= n.
CeilLog2(n) == CHOOSE k \in 0..30 : 2 ^ k >= n /\ \A j \in 0..(k - 1) : 2 ^ j < n

\* C18: with host_cpu_topology = false and cpu_count >= 1, leaves 0xB and 0x1F
\* get EDX = vcpu_id; at index 0 (EAX, EBX) is (0, 1) if no_smt or cpu_count
\* is 1, (1, 2) if cpu_count is even, else (ceil_log2(cpu_count), cpu_count),
\* and ECX is 0x100; at index 1 EAX is ceil_log2(cpu_count), EBX is
\* cpu_count & 0xffff and ECX is 0x201.
C18_TopologyLevels ==
    (Adjusted({11, 31}) /\ ~ctx.host_cpu_topology /\ ctx.cpu_count >= 1) =>
        LET r == cpu_id_entry.cpuid
        IN /\ r.edx = Bits(ctx.vcpu_id)
           /\ original.index = 0 =>
                /\ r.ecx = Bits(256)
                /\ IF ctx.no_smt \/ ctx.cpu_count = 1
                   THEN r.eax = Bits(0) /\ r.ebx = Bits(1)
                   ELSE IF ctx.cpu_count % 2 = 0
                   THEN r.eax = Bits(1) /\ r.ebx = Bits(2)
                   ELSE r.eax = Bits(CeilLog2(ctx.cpu_count)) /\ r.ebx = Bits(ctx.cpu_count)
           /\ original.index = 1 =>
                /\ r.eax = Bits(CeilLog2(ctx.cpu_count))
                /\ r.ebx = Bits(ctx.cpu_count % 65536)
                /\ r.ecx = Bits(513)

\* Five vcpus with SMT: the SMT level of leaf 0x1F reports shift 3 and 5 cpus.
C18_Witness ==
    /\ Adjusted({31}) /\ ~ctx.host_cpu_topology /\ ~ctx.no_smt /\ ctx.cpu_count = 5
    /\ original.index = 0 /\ original.cpuid.eax = Ones
    /\ cpu_id_entry.cpuid.eax = Bits(3) /\ cpu_id_entry.cpuid.ebx = Bits(5)

\* C19 as stated: with host_cpu_topology = false an entry of leaf 0xB or 0x1F
\* with index 2 or higher has all four registers zero.
C19_HigherIndexAllZero ==
    (Adjusted({11, 31}) /\ ~ctx.host_cpu_topology /\ original.index >= 2) =>
        cpu_id_entry.cpuid = CpuidResult(Zero, Zero, Zero, Zero)

\* C19 as amended: with host_cpu_topology = false an entry of leaf 0xB or 0x1F
\* with index 2 or higher has EAX, EBX and ECX zero and EDX equal to vcpu_id.
C19_HigherIndexZeroButEdx ==
    (Adjusted({11, 31}) /\ ~ctx.host_cpu_topology /\ original.index >= 2) =>
        cpu_id_entry.cpuid = CpuidResult(Zero, Zero, Zero, Bits(ctx.vcpu_id))

\* Index 2 supplied with all bits set, for vcpu 1.
C19_Witness ==
    /\ Adjusted({11}) /\ ~ctx.host_cpu_topology /\ original.index = 2
    /\ ctx.vcpu_id = 1
    /\ original.cpuid = CpuidResult(Ones, Ones, Ones, Ones)
    /\ cpu_id_entry.cpuid = CpuidResult(Zero, Zero, Zero, Bits(1))

\* C20 as stated: with no_smt = true, whatever host_cpu_topology is, the
\* index-0 entry of leaf 0xB and 0x1F has EBX bits 15:0 equal to 1.
C20_NoSmtOneThread ==
    (Adjusted({11, 31}) /\ ctx.no_smt /\ original.index = 0) =>
        Field(cpu_id_entry.cpuid.ebx, 15, 0) = 1

\* C20 as amended: with no_smt = true and host_cpu_topology = false the index-0
\* entry of leaf 0xB and 0x1F has EBX bits 15:0 equal to 1; with
\* host_cpu_topology = true the entry is left as it was supplied.
C20_NoSmtOneThreadOwnTopology ==
    (Adjusted({11, 31}) /\ ctx.no_smt /\ original.index = 0) =>
        IF ctx.host_cpu_topology
        THEN cpu_id_entry = original
        ELSE Field(cpu_id_entry.cpuid.ebx, 15, 0) = 1

\* Four vcpus without SMT: EBX supplied with all bits set becomes 1.
C20_Witness ==
    /\ Adjusted({11}) /\ ctx.no_smt /\ ~ctx.host_cpu_topology /\ original.index = 0
    /\ ctx.cpu_count = 4
    /\ original.cpuid.ebx = Ones
    /\ cpu_id_entry.cpuid.ebx = Bits(1)

\* The table handed to filter_cpuid had a leaf 0x15.
HadTscLeaf == \E k \in 1..Len(original) : original[k].function = 21

\* C21: after filter_cpuid with tsc_frequency present the table has an entry of
\* function 0x15 (a zeroed one appended at the end when there was none, nothing
\* appended when there was one) and every leaf-0 entry has EAX = max(input EAX,
\* 0x15); with tsc_frequency absent nothing is appended and leaf-0 EAX is as
\* supplied.
C21_TscLeafEnsured ==
    (cpc = "filtered" /\ Len(passes) = 1) =>
        LET n == Len(original)
        IN IF ctx.tsc_frequency # None
           THEN /\ \E k \in 1..Len(cpu_id_entries) : cpu_id_entries[k].function = 21
                /\ Len(cpu_id_entries) = IF HadTscLeaf THEN n ELSE n + 1
                /\ ~HadTscLeaf =>
                     cpu_id_entries[n + 1]
                        = CpuIdEntry(21, 0, 0, CpuidResult(Zero, Zero, Zero, Zero))
                /\ \A k \in 1..n :
                     original[k].function = 0 =>
                        Value(cpu_id_entries[k].cpuid.eax)
                           = IF Value(original[k].cpuid.eax) >= 21
                             THEN Value(original[k].cpuid.eax) ELSE 21
           ELSE /\ Len(cpu_id_entries) = n
                /\ \A k \in 1..n :
                     original[k].function = 0 =>
                        cpu_id_entries[k].cpuid.eax = original[k].cpuid.eax

\* A table of one leaf-0 entry with EAX = 1 and a known TSC frequency: EAX
\* becomes 0x15 and the leaf 0x15 is appended.
C21_Witness ==
    /\ cpc = "filtered" /\ ctx.tsc_frequency # None
    /\ Len(original) = 1 /\ original[1].function = 0 /\ original[1].cpuid.eax = Bits(1)
    /\ Len(cpu_id_entries) = 2
    /\ cpu_id_entries[1].cpuid.eax = Bits(21)
    /\ cpu_id_entries[2].function = 21

\* C22: filter_cpuid applied to the table it returned, with the same context
\* and the same probes, returns that table again: same entries, same order,
\* same registers.
C22_FilterIdempotent == Len(passes) = 2 => passes[2] = passes[1]

\* Two passes over a table the first pass changed and extended by leaf 0x15.
C22_Witness ==
    /\ Len(passes) = 2
    /\ Len(original) = 2
    /\ Len(passes[1]) = 3
    /\ passes[1][1] # original[1]
    /\ passes[2][3].function = 21

\* =================================================================
\* Properties of load_image_high
\* =================================================================
\* load_image_high has returned Ok((guest_addr, size)).
Loaded == image_load # <<>> /\ image_load.result = "Ok"

\* C27: when load_image_high succeeds (align is then a power of two) with
\* min_guest_addr <= max_guest_addr, the returned address is a multiple of
\* align, the image ends at or below max_guest_addr, and max_guest_addr - size
\* does not underflow.
C27_AlignedBelowMax ==
    (Loaded /\ image_load.min_guest_addr <= image_load.max_guest_addr) =>
        /\ \E k \in 0..30 : image_load.align = 2 ^ k
        /\ image_load.guest_addr % image_load.align = 0
        /\ image_load.guest_addr + image_load.size <= image_load.max_guest_addr
        /\ image_load.size <= image_load.max_guest_addr
        /\ image_load.guest_addr >= 0

\* An image of 2 bytes below address 7 with alignment 4 is placed at 4.
C27_Witness ==
    /\ Loaded
    /\ image_load.min_guest_addr = 1 /\ image_load.max_guest_addr = 7
    /\ image_load.align = 4 /\ image_load.size = 2
    /\ image_load.guest_addr = 4

\* C28: when load_image_high succeeds, the returned start address is not below
\* min_guest_addr, whether min_guest_addr is a multiple of align or not (stated
\* here for min_guest_addr <= max_guest_addr, where no subtraction wraps).
C28_NotBelowMin ==
    (Loaded /\ image_load.min_guest_addr <= image_load.max_guest_addr) =>
        image_load.guest_addr >= image_load.min_guest_addr

\* =================================================================
\* Properties of the sandbox allow-list and of a failed hot-plug
\* =================================================================
\* C29: the allow-list handed to a sandbox proxy holds the device's keep
\* descriptors, the logger's descriptors, the guest memory's backing descriptors
\* and the descriptor of every ioevent registered for the device, in
\* generate_pci_root and in configure_pci_device.
C29_AllowListComplete ==
    \A p \in Events :
        IsFork(p) =>
            LET dev == trace[p].dev
            IN /\ KeepRds(dev) \subseteq trace[p].keep_rds
               /\ SyslogDescriptors \subseteq trace[p].keep_rds
               /\ MemoryDescriptors \subseteq trace[p].keep_rds
               /\ IoeventDescriptors(dev) \subseteq trace[p].keep_rds

\* The call op on device id returned without error: the device was used again
\* after it.
Succeeded(op, id) ==
    \E p, q \in Events : p < q /\ trace[p].op = op /\ trace[p].dev = id /\ trace[q].dev = id

\* C30: when configure_pci_device returns an error, nothing built for the
\* device is retained: no PciRootCommand::Add was sent for it, none of its
\* ranges is in mmio_bus, and no ioevent, level-IRQ registration or IRQ
\* reservation made for it remains.
C30_NoPartialHotplug ==
    \A k \in 1..Len(hp_results) :
        hp_results[k] # "Ok" =>
            LET id == Len(devs) + k
            IN /\ \A n \in 1..Len(hp_tube) : hp_tube[n][2] # id
               /\ \A e \in mmio_bus : e.dev # id
               /\ ~Succeeded("register_ioevent", id)
               /\ ~Succeeded("register_level_irq_event", id)
               /\ \A p \in Events : ~(trace[p].op = "reserve_irq" /\ trace[p].dev = id)

Min(a, b) == IF a <= b THEN a ELSE b

\* C23: the byte count the worker reports for an event-queue descriptor is a
\* multiple of the event size and equals 8 * min(capacity / 8, events pending
\* when the descriptor was taken): no partial record is written.
C23_WholeEvents ==
    \A k \in 1..Len(used.event) :
        LET u == used.event[k]
        IN /\ u.len % 8 = 0
           /\ u.len = 8 * Min(u.capacity \div 8, u.available)
           /\ u.len = 8 * Len(u.events)

\* A descriptor too small for one event was returned with 0 bytes while events
\* were pending, and a larger one was returned with every pending event.
C23_Witness ==
    /\ \E k \in 1..Len(used.event) :
          used.event[k].capacity = 7 /\ used.event[k].available > 0 /\ used.event[k].len = 0
    /\ \E k \in 1..Len(used.event) :
          used.event[k].capacity = 20 /\ used.event[k].len = 8 * used.event[k].available

\* C24: in every wake-up of the worker loop, whatever is ready, the interrupt
\* is signalled exactly once if a descriptor of either queue was marked used,
\* and not at all if none was.
C24_SignalOncePerWakeup ==
    wake # <<>> =>
        /\ wake.used > 0 => wake.signals = 1
        /\ wake.used = 0 => wake.signals = 0

RingIndices(q) == [k \in 1..Len(q.ring) |-> q.ring[k].index]
UsedIndices(u) == [k \in 1..Len(u) |-> u[k].index]

RECURSIVE IsSubseq(_, _)
\* s is t with some elements left out, the order kept.
IsSubseq(s, t) ==
    IF s = <<>> THEN TRUE
    ELSE IF t = <<>> THEN FALSE
    ELSE IF Head(s) = Head(t) THEN IsSubseq(Tail(s), Tail(t))
    ELSE IsSubseq(s, Tail(t))

C26_DropTerminates == (dpc = "join") ~> (dpc = "dropped")

\* The device whose INTx registration failed, if that ended generate_pci_root.
RegisterIrqfdFailedOn(d) ==
    pc = "failed" /\ result = "RegisterIrqfd" /\ order # <<>> /\ Head(order) = d

\* The (address, gsi, pin) entries of the devices in ds, in index order.
IntxOf(d) ==
    LET q == CHOOSE q \in Events :
                trace[q].op = "register_level_irq_event" /\ trace[q].dev = d
    IN <<device_addrs[d], trace[q].bus, "pin">>

RECURSIVE IntxList(_, _)
IntxList(d, ds) ==
    IF d > Len(devs) THEN <<>>
    ELSE (IF d \in ds THEN <<IntxOf(d)>> ELSE <<>>) \o IntxList(d + 1, ds)

\* C31: in generate_pci_root, a device whose assign_irq returns (gsi, pin) is
\* registered with register_level_irq_event(gsi) exactly once, gets reserve_irq(gsi)
\* if and only if gsi is not the suggested IRQ, and (address, gsi, pin) is appended
\* to the INTx list in device-index order; a device whose assign_irq returns None
\* is not registered, reserved or recorded.
C31_IntxRegistration ==
    entry = "generate_pci_root" =>
        /\ \A p \in Events :
             IsSuggestion(p) =>
                LET d == trace[p].dev
                    regs == {q \in Events :
                               trace[q].op = "register_level_irq_event" /\ trace[q].dev = d}
                    res == {q \in Events : trace[q].op = "reserve_irq" /\ trace[q].dev = d}
                IN IF devs[d].intx = "none"
                   THEN /\ regs = {} /\ res = {}
                        /\ \A k \in 1..Len(pci_irqs) : pci_irqs[k][1] # device_addrs[d]
                   ELSE /\ Cardinality(regs) = 1
                        /\ Cardinality(res) <= 1
                        /\ \A q \in regs :
                             /\ res # {} <=> trace[q].bus # trace[p].bus
                             /\ \A r \in res : trace[r].bus = trace[q].bus /\ r < q
                             /\ devs[d].intx = "own" <=> trace[q].bus # trace[p].bus
        /\ pci_irqs = IntxList(1, {d \in Boot :
                                    /\ devs[d].intx # "none"
                                    /\ \E p \in Events : IsSuggestion(p) /\ trace[p].dev = d
                                    /\ ~RegisterIrqfdFailedOn(d)})

\* Three devices: one takes the suggestion, one picks its own gsi and has it
\* reserved, one uses no INTx; the list holds the first two in index order.
C31_Witness ==
    /\ entry = "generate_pci_root" /\ result = "Ok"
    /\ Len(devs) = 3
    /\ devs[1].intx = "own" /\ devs[2].intx = "none" /\ devs[3].intx = "suggested"
    /\ Len(pci_irqs) = 2
    /\ pci_irqs[1][1] = device_addrs[1] /\ pci_irqs[2][1] = device_addrs[3]
    /\ \E q \in Events : trace[q].op = "reserve_irq" /\ trace[q].dev = 1
    /\ ~\E q \in Events : trace[q].op = "reserve_irq" /\ trace[q].dev = 3

\* The calls of the INTx loop and of the registrar loop of generate_pci_root.
IntxOps == {"allocate_irq", "allocate_irq_err", "assign_irq", "reserve_irq",
            "register_level_irq_event"}
RegistrarOps == {"register_device_capabilities", "register_ioevent", "ProxyDevice::new",
                 "on_sandboxed", "add_device", "mmio_bus.insert"}
AddressErrors == {"AllocateDeviceAddrs", "AllocateIoAddrs", "BrokenPciTopology",
                  "ConfigureWindowSize"}
IntxErrors == {"AllocateIrq", "EventCreate", "RegisterIrqfd"}
RegistrarErrors == {"RegisterDeviceCapabilities", "RegisterIoevent", "ProxyDeviceCreation",
                    "MmioInsert"}

LastEvent == trace[Len(trace)]

\* The last call made is the step whose failure the error e names.
FailingStepIsLast(e) ==
    CASE e = "AllocateDeviceAddrs" ->
            \/ /\ LastEvent.op = "allocate_address"
               /\ LastEvent.dev = Len(device_addrs) + 1
            \/ LastEvent.op = "allocate_device_bars_err"
      [] e = "AllocateIoAddrs" -> LastEvent.op = "allocate_io_bars_err"
      [] e = "BrokenPciTopology" -> LastEvent.op = "add_child_bus"
      [] e = "ConfigureWindowSize" -> LastEvent.op = "configure_bridge_window"
      [] e = "AllocateIrq" ->
            LastEvent.op = "allocate_irq_err" /\ LastEvent.dev = Head(order)
      [] e = "EventCreate" ->
            /\ LastEvent.op \notin RegistrarOps
            /\ \A p \in Events :
                 trace[p].op \in IntxOps \ {"allocate_irq"} => trace[p].dev # Head(order)
      [] e = "RegisterIrqfd" ->
            LastEvent.op = "register_level_irq_event" /\ LastEvent.dev = Head(order)
      [] e = "RegisterDeviceCapabilities" ->
            LastEvent.op = "register_device_capabilities" /\ LastEvent.dev = Head(order)
      [] e = "RegisterIoevent" ->
            LastEvent.op = "register_ioevent" /\ LastEvent.dev = Head(order)
      [] e = "ProxyDeviceCreation" ->
            LastEvent.op = "ProxyDevice::new" /\ LastEvent.dev = Head(order)
      [] e = "MmioInsert" ->
            /\ LastEvent.op = "mmio_bus.insert" /\ LastEvent.dev = Head(order)
            /\ BusOverlaps(mmio_bus, LastEvent.ranges[1])
      [] OTHER -> FALSE

\* No call of a later phase, and none on a device that comes after the one
\* that failed.
NothingAfterFailure(e) ==
    /\ e \in AddressErrors =>
          /\ \A p \in Events : trace[p].op \notin IntxOps \cup RegistrarOps
          /\ mmio_bus = {} /\ root = {} /\ pci_irqs = <<>>
    /\ e \in IntxErrors =>
          /\ \A p \in Events :
               /\ trace[p].op \notin RegistrarOps
               /\ trace[p].op \in IntxOps => trace[p].dev <= Head(order)
          /\ mmio_bus = {} /\ root = {}
    /\ e \in RegistrarErrors =>
          /\ \A p \in Events :
               trace[p].op \in RegistrarOps =>
                  \A k \in 2..Len(order) : trace[p].dev # order[k]
          /\ \A k \in 2..Len(order) :
               /\ \A b \in mmio_bus : b.dev # order[k]
               /\ \A r \in root : r[2] # order[k]

\* C32: generate_pci_root is fail-fast: the first failing step makes it return
\* the corresponding DeviceRegistrationError, and after the failure no further
\* device callback, registration, fork or bus insert is performed.
C32_FailFast ==
    (entry = "generate_pci_root" /\ result \notin {"running", "Ok"}) =>
        /\ pc = "failed"
        /\ trace # <<>>
        /\ FailingStepIsLast(result)
        /\ NothingAfterFailure(result)

\* The second of three devices failed in the registrar loop with the first one
\* registered: nothing was done for the third.
C32_Witness ==
    /\ entry = "generate_pci_root" /\ Len(devs) = 3
    /\ result \in RegistrarErrors
    /\ Len(order) = 2
    /\ \E r \in root : r[2] \notin {order[1], order[2]}

\* C33: after adjust_cpuid on leaf 6, ECX bit 3 (EPB) is clear; EAX gains the
\* host's bits 14, 7 and 10 only when itmt and the host's bits 0 and 6 only when
\* enable_pnp_data, ECX gains the host's bit 0 only when enable_pnp_data; no
\* other bit changes, and with both flags false the probe has no influence.
C33_Leaf6 ==
    Adjusted({6}) =>
        LET o == original.cpuid
            n == cpu_id_entry.cpuid
            probe == host.cpuid
            from_itmt == IF ctx.itmt THEN probe.eax \cap {14, 7, 10} ELSE {}
            from_pnp == IF ctx.enable_pnp_data THEN probe.eax \cap {0, 6} ELSE {}
            ecx_pnp == IF ctx.enable_pnp_data THEN probe.ecx \cap {0} ELSE {}
        IN /\ 3 \notin n.ecx
           /\ n.eax = (o.eax \cup from_itmt) \cup from_pnp
           /\ n.ecx = (o.ecx \ {3}) \cup ecx_pnp
           /\ n.ebx = o.ebx /\ n.edx = o.edx
           /\ cpu_id_entry.function = original.function
           /\ cpu_id_entry.index = original.index
           /\ cpu_id_entry.flags = original.flags

\* With itmt alone, an entry that had EPB set lost it and gained the host's
\* HWP bit, while the host's EAX bit 20 and ECX bit 9 were not taken.
C33_Witness ==
    /\ Adjusted({6})
    /\ ctx.itmt /\ ~ctx.enable_pnp_data
    /\ host.cpuid.eax = {0, 3, 7, 20}
    /\ original.cpuid.ecx = Bits(59) /\ original.cpuid.eax = Bits(31)
    /\ cpu_id_entry.cpuid.eax = Bits(31) \cup {7}
    /\ cpu_id_entry.cpuid.ecx = Bits(59) \ {3}

\* C34: adjust_cpuid on leaf 0x15: when the calibrated leaf is required or
\* forced, the registers become the leaf synthesised from (tsc_frequency,
\* apic_frequency) if tsc_frequency is present and stay as they were if it is
\* absent, the host leaf unused; otherwise they equal host cpuid(0x15) when
\* enable_pnp_data and are unchanged when not.
C34_Leaf15 ==
    Adjusted({21}) =>
        /\ cpu_id_entry.cpuid =
              IF ctx.calibrated_tsc_leaf_required \/ ctx.force_calibrated_tsc_leaf
              THEN IF ctx.tsc_frequency # None
                   THEN FakeTscFrequencyCpuid(ctx.tsc_frequency, ctx.apic_frequency)
                   ELSE original.cpuid
              ELSE IF ctx.enable_pnp_data THEN host.cpuid
              ELSE original.cpuid
        /\ cpu_id_entry.function = original.function
        /\ cpu_id_entry.index = original.index
        /\ cpu_id_entry.flags = original.flags

\* The leaf was required with enable_pnp_data set and a known TSC frequency:
\* the synthesised leaf was written, which is neither the host's nor the input.
C34_Witness ==
    /\ Adjusted({21})
    /\ ctx.calibrated_tsc_leaf_required /\ ctx.enable_pnp_data
    /\ ctx.tsc_frequency = 6 /\ ctx.apic_frequency = 2
    /\ cpu_id_entry.cpuid = CpuidResult(Bits(1), Bits(3), Bits(2), {})
    /\ cpu_id_entry.cpuid # host.cpuid
    /\ cpu_id_entry.cpuid # original.cpuid

\* The leaves adjust_cpuid has an arm for.
AdjustedLeaves == {0, 1, 2, 4, 6, 7, 11, 21, 26, 31} \cup {ExtendedLeaf(n) : n \in 2..6}

\* C35: filter_cpuid never changes the function, index or flags of an entry,
\* never removes or reorders the entries it was given (it can only append one
\* function-0x15 entry at the end), and leaves the four registers of every entry
\* of a leaf without an arm in adjust_cpuid unchanged.
C35_FilterFrame ==
    cpc = "filtered" =>
        /\ Len(cpu_id_entries) \in {Len(original), Len(original) + 1}
        /\ Len(cpu_id_entries) = Len(original) + 1 =>
              /\ cpu_id_entries[Len(cpu_id_entries)].function = 21
              /\ \A k \in 1..Len(original) : original[k].function # 21
        /\ \A k \in 1..Len(original) :
              /\ cpu_id_entries[k].function = original[k].function
              /\ cpu_id_entries[k].index = original[k].index
              /\ cpu_id_entries[k].flags = original[k].flags
              /\ original[k].function \notin AdjustedLeaves =>
                    cpu_id_entries[k].cpuid = original[k].cpuid

\* A table of a leaf without an arm and a leaf that is rewritten from the host,
\* with a leaf 0x15 appended: the first entry is as it was, the second is not.
C35_Witness ==
    /\ cpc = "filtered"
    /\ Len(original) = 2 /\ Len(cpu_id_entries) = 3
    /\ original[1].function = 13 /\ original[2].function = ExtendedLeaf(2)
    /\ cpu_id_entries[1] = original[1]
    /\ cpu_id_entries[2].cpuid # original[2].cpuid
    /\ cpu_id_entries[3].function = 21

\* Bit idx of the bitmap: bit idx % 8 of byte idx / 8.
BitSet(bitmap, idx) == (bitmap[(idx \div 8) + 1] \div (2 ^ (idx % 8))) % 2 = 1

\* C37: from_bits sets exactly the bits whose index is in the input and below
\* 1024; an index of 1024 or more is dropped and changes nothing else; min_size
\* of the result is 0 for an empty bitmap and otherwise the index of the last
\* non-zero byte plus one, at most 128.
C37_FromBits ==
    (bitmap_call # <<>> /\ bitmap_call.pc = "done") =>
        LET given == Range(bitmap_call.set_indices)
            bitmap == bitmap_call.bitmap
        IN /\ Len(bitmap) = 128
           /\ \A k \in 1..128 : bitmap[k] \in 0..255
           /\ \A idx \in 0..1023 : BitSet(bitmap, idx) <=> idx \in given
           /\ bitmap = FromBits(SelectSeq(bitmap_call.set_indices, LAMBDA idx : idx < 1024))
           /\ bitmap_call.min_size <= 128
           /\ IF \A k \in 1..128 : bitmap[k] = 0
              THEN bitmap_call.min_size = 0
              ELSE /\ bitmap[bitmap_call.min_size] # 0
                   /\ \A k \in (bitmap_call.min_size + 1)..128 : bitmap[k] = 0

\* Bit 9 and an index past the bitmap were given: bit 9 alone is set and
\* min_size is 2.
C37_Witness ==
    /\ bitmap_call # <<>> /\ bitmap_call.pc = "done"
    /\ bitmap_call.set_indices = <<1024, 9>>
    /\ bitmap_call.bitmap[2] = 2
    /\ bitmap_call.min_size = 2


\* -----------------------------------------------------------------
\* Properties of the virtio-input config space
\* -----------------------------------------------------------------
\* The bytes the selected item is made of, before padding with zeroes.
SelectedItem(self) ==
    CASE self.select = VIRTIO_INPUT_CFG_ID_NAME -> self.name
      [] self.select = VIRTIO_INPUT_CFG_ID_SERIAL -> self.serial_name
      [] self.select = VIRTIO_INPUT_CFG_ID_DEVIDS -> DeviceIdsSlice(self.device_ids)
      [] self.select = VIRTIO_INPUT_CFG_PROP_BITS -> self.properties
      [] self.select = VIRTIO_INPUT_CFG_EV_BITS /\ self.subsel = 0 -> FromBits(SortedKeys(DOMAIN self.supported_events))
      [] self.select = VIRTIO_INPUT_CFG_EV_BITS /\ self.subsel \in DOMAIN self.supported_events -> self.supported_events[self.subsel]
      [] self.select = VIRTIO_INPUT_CFG_ABS_INFO /\ self.subsel \in DOMAIN self.axis_info -> AbsinfoSlice(self.axis_info[self.subsel])
      [] OTHER -> <<>>

\* The size byte: the length of a name, an absinfo or the ids, and for a
\* bitmap the position of its last byte that is not zero.
SelectedSize(self) ==
    IF self.select \in {VIRTIO_INPUT_CFG_PROP_BITS, VIRTIO_INPUT_CFG_EV_BITS}
      THEN Max(0, CHOOSE n \in 0..BITMAP_LEN : /\ (n > 0 => SelectedItem(self)[n] # 0)
                                               /\ \A k \in (n + 1)..Len(SelectedItem(self)) : SelectedItem(self)[k] = 0)
      ELSE Len(SelectedItem(self))

\* Byte pos (from 1) of the config space, from select, subsel and the
\* captured capabilities.
ConfigByte(self, pos) ==
    CASE pos = 1 -> self.select
      [] pos = 2 -> self.subsel
      [] pos = 3 -> SelectedSize(self)
      [] pos > 3 + RESERVED_LEN /\ pos - 3 - RESERVED_LEN <= Len(SelectedItem(self)) -> SelectedItem(self)[pos - 3 - RESERVED_LEN]
      [] OTHER -> 0

\* C36: a config write changes only select (byte 0) and subsel (byte 1),
\* and nothing at all when it covers only offsets of 2 and above; a config
\* read changes no state, and every byte it returns is the byte of the
\* config space that select, subsel and the captured capabilities give.
C36_ConfigSpace ==
    config_io # <<>> =>
      LET before == config_io.before
          offset == config_io.offset
          data == config_io.data
          returned == config_io.result
      IN  /\ config_io.op = "write" =>
               /\ DOMAIN config = DOMAIN before
               /\ \A field \in DOMAIN config \ {"select", "subsel"} : config[field] = before[field]
               /\ config.select = IF offset = 0 /\ Len(data) >= 1 THEN data[1] ELSE before.select
               /\ config.subsel = IF offset <= 1 /\ Len(data) >= 2 - offset THEN data[2 - offset] ELSE before.subsel
               /\ offset >= 2 => config = before
          /\ config_io.op = "read" =>
               /\ config = before
               /\ Len(returned) = Len(data)
               /\ \A k \in 1..Len(data) :
                    returned[k] = IF offset + k <= CONFIG_LEN THEN ConfigByte(before, offset + k) ELSE data[k]

\* The guest has selected the codes of event type 1 and read payload bytes
\* 1 and 2: code 9 is bit 1 of byte 1.
C36_Witness ==
    /\ config_io # <<>>
    /\ config_io.op = "read"
    /\ config_io.before.select = VIRTIO_INPUT_CFG_EV_BITS
    /\ config_io.before.subsel = 1
    /\ config_io.offset = 9
    /\ config_io.result = <<2, 0>>


\* -----------------------------------------------------------------
\* Properties of the descriptors and events of the worker
\* -----------------------------------------------------------------
\* C38: at the end of every wake-up, each descriptor chain popped from the
\* event queue or the status queue has been marked used, in the order of
\* the pops, also when filling or reading the chain failed.
C38_PoppedIsUsed ==
    /\ UsedIndices(used.event) = popped.event
    /\ UsedIndices(used.status) = popped.status

\* The events written into the descriptors marked used, in order.
RECURSIVE Delivered(_)
Delivered(marked) == IF marked = <<>> THEN <<>> ELSE Head(marked).events \o Delivered(Tail(marked))

\* C39: a descriptor of the event queue is popped only while an event is
\* pending, and the events taken from the source are, in source order and
\* once each, the events written into the descriptors marked used: with
\* the events still pending they are all the events the source received.
C39_NoEventLost ==
    /\ \A k \in 1..Len(used.event) : used.event[k].available >= 1
    /\ Delivered(used.event) \o event_source.pending = [k \in 1..(event_source.next - 1) |-> k]

\* C40: a worker thread that has ended after init succeeded has called
\* finalize exactly once.
C40_FinalizedOnce ==
    (worker # <<>> /\ worker.pc = "exited" /\ worker.init = 1) => worker.finalize = 1

====
